---- MODULE Spec2Model ----
(***************************************************************************)
(* A model of pytest-html-dashboard's core: the SQLite-backed History      *)
(* Store (pytest_html_dashboard/history.py) and the in-memory Error Store  *)
(* with its classifier (pytest_dashboard/error_reporting.py).              *)
(*                                                                         *)
(* Time is the value of SQLite's CURRENT_TIMESTAMP / datetime('now'): a    *)
(* count of whole seconds.  Two statements executed within one second get  *)
(* the same timestamp.                                                     *)
(***************************************************************************)
EXTENDS Integers, Sequences, FiniteSets, TLC

(* ------------------------------ bounds --------------------------------- *)

\* The last second the clock reaches.
MaxClock == 1
\* The number of run ids the store hands out.
MaxRuns == 4
\* The longest tests list of one save_test_run call.
MaxTests == 2
\* The number of result ids the store hands out.
MaxRows == 4

(* --------------------------- input domains ----------------------------- *)

\* Test names given to save_test_run.
Names == {"test_a", "test_b"}
\* A tests entry whose 'name' is None: test.get('name', '') returns None and
\* None.encode() raises AttributeError (history.py line 145).
NoName == "None"
\* Outcomes reported by the runner; "skipped" stands for every outcome that
\* is neither 'passed' nor 'failed' (skipped, error, unknown).
Outcomes == {"passed", "failed", "skipped"}

Tests == [name : Names, outcome : Outcomes]

\* The entry that makes save_test_run raise.
BadTest == [name |-> NoName, outcome |-> "passed"]

\* pytest_sessionfinish saves a run only when it collected a result.
GoodLists == UNION {[1..n -> Tests] : n \in 1..MaxTests}

\* The tests lists given to save_test_run: well-formed ones, and well-formed
\* ones followed by an entry on which the loop raises.
TestLists ==
    GoodLists \cup {<<BadTest>>}
              \cup {Append(l, BadTest) : l \in {g \in GoodLists : Len(g) < MaxTests}}

(* ------------------------------ helpers -------------------------------- *)

Min(a, b) == IF a <= b THEN a ELSE b

\* A dict with no key.
EmptyDict == [k \in {} |-> 0]

\* The number of indices of sequence s whose element satisfies s[i] = v.
CountOf(s, v) == Cardinality({i \in DOMAIN s : s[i] = v})

(* ------------------------------- state --------------------------------- *)

VARIABLES
    clock,      \* the current second (CURRENT_TIMESTAMP)
    db,         \* the committed database: what any other connection reads
    tx,         \* the database as the writing connection sees it (its open
                \* transaction included); equal to db when no save is running
    pc,         \* "idle", or "saving" while save_test_run is inside its with-block
    call,       \* the arguments and run_id of the save_test_run call in progress
                \* (kept after it returns, until the next call)
    idx,        \* index of the next entry of call.tests to be processed
    ret,        \* the last completed writing call and what it returned
    recorded,   \* history variable: per test name, the outcomes recorded by
                \* committed saves, in order
    rd,         \* a reading connection inside get_statistics: the statement it
                \* is at and what the earlier statements fetched
    out,        \* what a reading call returned in the step just taken
    error_storage,      \* EnhancedErrorReporter.error_storage: test id -> list
                        \* of ErrorDetails
    error_statistics,   \* EnhancedErrorReporter.error_statistics: category ->
                        \* count
    returned,   \* history variable: the run_ids returned by the successful
                \* save_test_run calls, in order
    session,            \* the hook of the pytest session that ran last
    config,             \* reporter_config: historical.enable_tracking and
                        \* realtime.enable_realtime
    _history_tracker,   \* plugin._history_tracker: None or the TestHistory
    _test_results,      \* plugin._test_results, as the tests list built from it
    historical_data,    \* historical_data of enhance_html_report_dashboard
    report,             \* the sections of the report written
    _dashboard_realtime,    \* config._dashboard_realtime: None or the
                            \* RealtimeDashboard
    faults,             \* history variable: the History Store calls that raised
    current_state,      \* RealtimeDashboard.current_state
    starts,             \* history variable: the update_test_start calls made
    ends,               \* history variable: the outcomes given to
                        \* update_test_end, in order
    solution_cache,     \* AIErrorAnalyzer.solution_cache: key -> analysis
    analysis            \* the last call of analyze_error and what it returned

pluginVars == <<session, config, _history_tracker, _test_results,
                historical_data, report, _dashboard_realtime, faults>>

realtimeVars == <<current_state, starts, ends>>

\* The variables outside the History Store and the error store.
analyzerVars == <<solution_cache, analysis>>

otherVars == <<pluginVars, realtimeVars, analyzerVars>>

vars == <<clock, db, tx, pc, call, idx, ret, recorded, rd, out,
          error_storage, error_statistics, returned, otherVars>>

(* ---------------------------- test identity ---------------------------- *)

\* The digest of the empty string, whatever the name.
Md5OfNothing(test_name) == "d41d8cd98f00b204e9800998ecf8427e"

\* hashlib.md5(test_name.encode()).hexdigest() on the names of the model.
_generate_test_id(test_name) ==
    CASE test_name = "test_a" -> "8f0d5db6f857c6e0d9c92f1471064631"
      [] test_name = "test_b" -> "a5381dac73e94e8bdf3ad101d1a2aaf3"

TestIds == {_generate_test_id(n) : n \in Names}

(* ------------------------------ database ------------------------------- *)

\* The three tables after _init_database on a new file, with the
\* sqlite_sequence counters of the two AUTOINCREMENT keys.
EmptyDb ==
    [runs |-> {}, results |-> {}, flaky |-> {}, run_seq |-> 0, result_seq |-> 0]

\* DEFAULT of flaky_tests.flaky_count, taken by every INSERT that does not
\* name the column.
FlakyCountDefault == 1

\* DEFAULT of flaky_tests.pass_count and flaky_tests.fail_count.
CountDefault == 0

\* What cursor.fetchone() returns when the SELECT has no row.
NoRow == "no row"

HasFlaky(flaky, test_id) == \E r \in flaky : r.test_id = test_id

FlakyRow(flaky, test_id) == CHOOSE r \in flaky : r.test_id = test_id

\* INSERT INTO flaky_tests (test_id, test_name, flaky_count) VALUES (?, ?, 1)
\* ON CONFLICT(test_id) DO UPDATE SET flaky_count = flaky_count + 1,
\*                                    last_flip_date = CURRENT_TIMESTAMP
UpsertFlip(flaky, test_id, test_name, now) ==
    IF HasFlaky(flaky, test_id)
    THEN LET old == FlakyRow(flaky, test_id)
         IN  (flaky \ {old}) \cup
             {[old EXCEPT !.flaky_count = @ + 1, !.last_flip_date = now]}
    ELSE flaky \cup
         {[test_id |-> test_id, test_name |-> test_name, flaky_count |-> 1,
           last_flip_date |-> now, pass_count |-> CountDefault,
           fail_count |-> CountDefault]}

\* INSERT INTO flaky_tests (test_id, test_name, pass_count) VALUES (?, ?, 1)
\* ON CONFLICT(test_id) DO UPDATE SET pass_count = pass_count + 1
UpsertPass(flaky, test_id, test_name, now) ==
    IF HasFlaky(flaky, test_id)
    THEN LET old == FlakyRow(flaky, test_id)
         IN  (flaky \ {old}) \cup {[old EXCEPT !.pass_count = @ + 1]}
    ELSE flaky \cup
         {[test_id |-> test_id, test_name |-> test_name,
           flaky_count |-> FlakyCountDefault, last_flip_date |-> now,
           pass_count |-> 1, fail_count |-> CountDefault]}

\* INSERT INTO flaky_tests (test_id, test_name, fail_count) VALUES (?, ?, 1)
\* ON CONFLICT(test_id) DO UPDATE SET fail_count = fail_count + 1
UpsertFail(flaky, test_id, test_name, now) ==
    IF HasFlaky(flaky, test_id)
    THEN LET old == FlakyRow(flaky, test_id)
         IN  (flaky \ {old}) \cup {[old EXCEPT !.fail_count = @ + 1]}
    ELSE flaky \cup
         {[test_id |-> test_id, test_name |-> test_name,
           flaky_count |-> FlakyCountDefault, last_flip_date |-> now,
           pass_count |-> CountDefault, fail_count |-> 1]}

\* The rows a "WHERE test_id = ? ORDER BY timestamp DESC LIMIT 1" may return:
\* those of the test with the greatest timestamp.  SQL leaves the order of
\* rows with equal timestamps open, so each of them is a possible first row.
LatestRows(results, test_id) ==
    LET mine == {r \in results : r.test_id = test_id}
    IN  {r \in mine : \A q \in mine : q.timestamp <= r.timestamp}

\* The values cursor.fetchone() may give _update_flaky_detection for its
\* "previous outcome" query, run on the writing connection.
PreviousOutcomes(results, test_id) ==
    IF LatestRows(results, test_id) = {}
    THEN {NoRow}
    ELSE {r.outcome : r \in LatestRows(results, test_id)}

\* _update_flaky_detection with an "else" slipped in before the counters: a
\* save that records a flip no longer counts its outcome.
UpdateFlakyCountsOnlyWithoutFlip(flaky, test_id, test_name, outcome, previous, now) ==
    IF previous # NoRow /\ previous # outcome
    THEN UpsertFlip(flaky, test_id, test_name, now)
    ELSE IF outcome = "passed" THEN UpsertPass(flaky, test_id, test_name, now)
    ELSE IF outcome = "failed" THEN UpsertFail(flaky, test_id, test_name, now)
    ELSE flaky

\* _update_flaky_detection, given the row its SELECT fetched.
_update_flaky_detection(flaky, test_id, test_name, outcome, previous, now) ==
    LET flipped == IF previous # NoRow /\ previous # outcome
                   THEN UpsertFlip(flaky, test_id, test_name, now)
                   ELSE flaky
    IN  IF outcome = "passed" THEN UpsertPass(flipped, test_id, test_name, now)
        ELSE IF outcome = "failed" THEN UpsertFail(flipped, test_id, test_name, now)
        ELSE flipped

(* ---------------------------- save_test_run ---------------------------- *)

\* pytest_sessionfinish: the summary it computes from the collected results.
Summarize(tests) ==
    [total  |-> Len(tests),
     passed |-> Cardinality({i \in DOMAIN tests : tests[i].outcome = "passed"})]

\* out after a step in which no reading call returned.
NoOut == [op |-> "none"]

\* rd while no get_statistics call is running.
NoRead == [pc |-> "idle", total_runs |-> 0, average_pass_rate |-> 0]

NoCall == [summary |-> [total |-> 0, passed |-> 0], tests |-> <<>>, run_id |-> 0]

\* ret before any call has returned.  op names the call, raised tells whether
\* it ended by an exception, run_id is save_test_run's return value, days
\* and at are clear_old_data's argument and the second in which it started.
NoRet == [op |-> "none", raised |-> FALSE, run_id |-> 0, days |-> 0, at |-> 0]

\* The key of a table without AUTOINCREMENT: one more than the largest
\* run_id among the rows present.
NextRowid(t) ==
    IF t.runs = {} THEN 1
    ELSE 1 + (CHOOSE i \in {r.run_id : r \in t.runs} : \A r \in t.runs : r.run_id <= i)

\* run_id INTEGER PRIMARY KEY AUTOINCREMENT: one more than the largest run_id
\* ever given, which SQLite keeps in sqlite_sequence.
NextRunId(t) == t.run_seq + 1

\* The INSERT INTO test_runs: opens the connection's transaction and takes
\* the next AUTOINCREMENT run_id (cursor.lastrowid).
InsertRun(t, summary, now) ==
    [t EXCEPT
       !.runs = @ \cup {[run_id |-> NextRunId(t), timestamp |-> now,
                         total_tests |-> summary.total, passed |-> summary.passed]},
       !.run_seq = @ + 1]

\* An insert that files the row under its own rowid in place of the run's id.
InsertResultUnderRowid(t, run_id, test, now) ==
    [t EXCEPT
       !.results = @ \cup {[result_id |-> t.result_seq + 1, run_id |-> t.result_seq + 1,
                            test_id |-> _generate_test_id(test.name),
                            test_name |-> test.name, outcome |-> test.outcome,
                            timestamp |-> now]},
       !.result_seq = @ + 1]

\* An INSERT OR REPLACE keyed by test_id: the row takes the place of the
\* earlier rows of the test.
InsertOrReplaceResult(t, run_id, test, now) ==
    [t EXCEPT
       !.results = {x \in @ : x.test_id # _generate_test_id(test.name)}
                   \cup {[result_id |-> t.result_seq + 1, run_id |-> run_id,
                          test_id |-> _generate_test_id(test.name),
                          test_name |-> test.name, outcome |-> test.outcome,
                          timestamp |-> now]},
       !.result_seq = @ + 1]

\* The INSERT INTO test_results of one test of the list.
InsertResult(t, run_id, test, now) ==
    [t EXCEPT
       !.results = @ \cup {[result_id |-> t.result_seq + 1, run_id |-> run_id,
                            test_id |-> _generate_test_id(test.name),
                            test_name |-> test.name, outcome |-> test.outcome,
                            timestamp |-> now]},
       !.result_seq = @ + 1]

\* A connection in autocommit mode: each statement is committed as it runs.
CommittedAtOnce(committed, working) == working

\* The committed database after a statement of save_test_run's transaction:
\* as before, the one conn.commit() comes after the loop (line 166).
CommittedAfterStatement(committed, working) == committed

\* save_test_run enters its with-block and inserts the run row.
SaveBegin(summary, tests) ==
    /\ pc = "idle"
    /\ db.run_seq < MaxRuns
    /\ db.result_seq + Len(tests) <= MaxRows
    /\ tx' = InsertRun(db, summary, clock)
    /\ call' = [summary |-> summary, tests |-> tests, run_id |-> NextRunId(db)]
    /\ idx' = 1
    /\ pc' = "saving"
    /\ ret' = NoRet
    /\ db' = CommittedAfterStatement(db, tx')
    /\ out' = NoOut
    /\ UNCHANGED <<clock, recorded, rd, error_storage, error_statistics, returned, otherVars>>

\* One iteration of the loop over results['tests'] (lines 144-164): the result
\* row is inserted first, then _update_flaky_detection queries the table.
SaveTest ==
    /\ pc = "saving"
    /\ idx <= Len(call.tests)
    /\ call.tests[idx].name # NoName
    /\ LET test == call.tests[idx]
           ins  == InsertResult(tx, call.run_id, test, clock)
           tid  == _generate_test_id(test.name)
       IN  \E previous \in PreviousOutcomes(ins.results, tid) :
              tx' = [ins EXCEPT !.flaky =
                        _update_flaky_detection(@, tid, test.name, test.outcome,
                                                previous, clock)]
    /\ idx' = idx + 1
    /\ db' = CommittedAfterStatement(db, tx')
    /\ out' = NoOut
    /\ UNCHANGED <<clock, pc, call, ret, recorded, rd, error_storage, error_statistics, returned, otherVars>>

\* A connection that commits what was written before the exception.
RollbackKeepsWrites(committed, working) == working

\* What the connection's context manager does when the with-block raises.
Rollback(committed, working) == committed

\* An iteration raises (the entry's name is None): the with-block is left by
\* the exception and the connection rolls its transaction back.
SaveRaise ==
    /\ pc = "saving"
    /\ idx <= Len(call.tests)
    /\ call.tests[idx].name = NoName
    /\ db' = Rollback(db, tx)
    /\ tx' = db'
    /\ pc' = "idle"
    /\ ret' = [op |-> "save_test_run", raised |-> TRUE, run_id |-> 0, days |-> 0, at |-> 0]
    /\ call' = NoCall
    /\ out' = NoOut
    /\ UNCHANGED <<clock, idx, recorded, rd, error_storage, error_statistics, returned, otherVars>>

\* The outcomes of the entries of tests that carry name n, in list order.
OutcomesOf(tests, n) ==
    LET F[i \in 0..Len(tests)] ==
          IF i = 0 THEN <<>>
          ELSE IF tests[i].name = n THEN Append(F[i - 1], tests[i].outcome)
               ELSE F[i - 1]
    IN  F[Len(tests)]

\* conn.commit() and return run_id.
SaveCommit ==
    /\ pc = "saving"
    /\ idx > Len(call.tests)
    /\ db' = tx
    /\ pc' = "idle"
    /\ ret' = [op |-> "save_test_run", raised |-> FALSE, run_id |-> call.run_id, days |-> 0, at |-> 0]
    /\ recorded' = [n \in Names |-> recorded[n] \o OutcomesOf(call.tests, n)]
    /\ returned' = Append(returned, call.run_id)
    /\ out' = NoOut
    /\ UNCHANGED <<clock, tx, call, idx, rd, error_storage, error_statistics, otherVars>>

(* --------------------------- clear_old_data ---------------------------- *)

\* The seconds that datetime('now', '-1 days') goes back.
SecondsPerDay == 86400

\* The retention values clear_old_data is called with.
Retentions == {0, 1}

\* A cutoff one day too early.
CutoffOneDayEarly(now, days) == now - (days + 1) * SecondsPerDay

\* datetime('now', '-' || days || ' days') evaluated at second now.
Cutoff(now, days) == now - days * SecondsPerDay

\* A prune that also drops the flaky entries of the tests left without rows.
ClearOldDataAndFlaky(d, days, now1, now2) ==
    LET old1 == {r.run_id : r \in {q \in d.runs : q.timestamp < Cutoff(now1, days)}}
        kept == {x \in d.results : x.run_id \notin old1}
    IN  [d EXCEPT
           !.results = kept,
           !.runs = {r \in @ : ~(r.timestamp < Cutoff(now2, days))},
           !.flaky = {e \in @ : \E x \in kept : x.test_id = e.test_id}]

\* The two DELETE statements of clear_old_data; each evaluates
\* datetime('now') when it runs: the first at now1, the second at now2.
clear_old_data(d, days, now1, now2) ==
    LET old1 == {r.run_id : r \in {q \in d.runs : q.timestamp < Cutoff(now1, days)}}
    IN  [d EXCEPT
           !.results = {x \in @ : x.run_id \notin old1},
           !.runs = {r \in @ : ~(r.timestamp < Cutoff(now2, days))}]

\* A call of clear_old_data(days); the second may change between its two
\* statements.  It writes, so it runs only while no save holds the write lock.
ClearOldData(days) ==
    /\ pc = "idle"
    /\ \E now2 \in {clock, Min(clock + 1, MaxClock)} :
          /\ db' = clear_old_data(db, days, clock, now2)
          /\ clock' = now2
    /\ tx' = db'
    /\ ret' = [op |-> "clear_old_data", raised |-> FALSE, run_id |-> 0, days |-> days, at |-> clock]
    /\ out' = NoOut
    /\ UNCHANGED <<pc, call, idx, recorded, rd, error_storage, error_statistics, returned, otherVars>>

\* A second passes.
Tick ==
    /\ clock < MaxClock
    /\ clock' = clock + 1
    /\ out' = NoOut
    /\ UNCHANGED <<db, tx, pc, call, idx, ret, recorded, rd, error_storage, error_statistics, returned, otherVars>>

(* ------------------------------- readers ------------------------------ *)

\* The default of get_test_history's limit.
HistoryLimitDefault == 20

\* The orders in which "ORDER BY timestamp DESC" may deliver a set of rows:
\* newest first, rows of one second in any order.
RECURSIVE NewestFirst(_)
NewestFirst(rows) ==
    IF rows = {} THEN {<<>>}
    ELSE LET top == {r \in rows : \A q \in rows : q.timestamp <= r.timestamp}
         IN  UNION {{<<r>> \o rest : rest \in NewestFirst(rows \ {r})} : r \in top}

\* get_test_history(test_name, limit): the lists it may return when it reads
\* database d, each entry with the columns timestamp and outcome.
get_test_history(d, test_name, limit) ==
    LET rows == {r \in d.results : r.test_id = _generate_test_id(test_name)}
    IN  {[i \in 1..Min(limit, Len(o)) |->
             [timestamp |-> o[i].timestamp, outcome |-> o[i].outcome]] :
         o \in NewestFirst(rows)}

\* The orders in which "ORDER BY flaky_count DESC" may deliver a set of rows.
RECURSIVE MostFlakyFirst(_)
MostFlakyFirst(rows) ==
    IF rows = {} THEN {<<>>}
    ELSE LET top == {r \in rows : \A q \in rows : q.flaky_count <= r.flaky_count}
         IN  UNION {{<<r>> \o rest : rest \in MostFlakyFirst(rows \ {r})} : r \in top}

\* get_flaky_tests(min_flips): the lists it may return when it reads d.
get_flaky_tests(d, min_flips) ==
    MostFlakyFirst({r \in d.flaky : r.flaky_count >= min_flips})

\* The default of get_trend_data's limit.
TrendLimitDefault == 10

\* The default of get_flaky_tests's min_flips.
MinFlipsDefault == 2

\* get_trend_data(limit): the lists of run rows it may return on database d.
get_trend_data(d, limit) ==
    {SubSeq(o, 1, Min(limit, Len(o))) : o \in NewestFirst(d.runs)}

\* A call of get_trend_data: one SELECT on the committed database.  The
\* reader makes one call at a time.
ReadTrend(limit) ==
    /\ rd.pc = "idle"
    /\ \E l \in get_trend_data(db, limit) :
          out' = [op |-> "get_trend_data", value |-> l]
    /\ UNCHANGED <<clock, db, tx, pc, call, idx, ret, recorded, rd, error_storage, error_statistics, returned, otherVars>>

\* A call of get_flaky_tests: one SELECT on the committed database.
ReadFlaky(min_flips) ==
    /\ rd.pc = "idle"
    /\ \E l \in get_flaky_tests(db, min_flips) :
          out' = [op |-> "get_flaky_tests", min_flips |-> min_flips, value |-> l]
    /\ UNCHANGED <<clock, db, tx, pc, call, idx, ret, recorded, rd, error_storage, error_statistics, returned, otherVars>>

\* A call of get_test_history: one SELECT on the committed database.
ReadHistory(test_name, limit) ==
    /\ rd.pc = "idle"
    /\ \E l \in get_test_history(db, test_name, limit) :
          out' = [op |-> "get_test_history", test_name |-> test_name,
                  limit |-> limit, value |-> l]
    /\ UNCHANGED <<clock, db, tx, pc, call, idx, ret, recorded, rd, error_storage, error_statistics, returned, otherVars>>

(* ---------------------------- get_statistics --------------------------- *)

\* a / b rounded to the nearest integer, halves to the even one: round(x, 2)
\* on a value counted in hundredths.  (No input of the model produces a half.)
RoundHalfEven(a, b) ==
    LET q == a \div b
        r == a % b
    IN  IF 2 * r < b THEN q
        ELSE IF 2 * r > b THEN q + 1
        ELSE IF q % 2 = 0 THEN q ELSE q + 1

\* The sum of passed / total_tests over a set of run rows, as <<num, den>>.
RECURSIVE SumOfRatios(_)
SumOfRatios(rows) ==
    IF rows = {} THEN <<0, 1>>
    ELSE LET r    == CHOOSE x \in rows : TRUE
             rest == SumOfRatios(rows \ {r})
         IN  <<rest[1] * r.total_tests + r.passed * rest[2], rest[2] * r.total_tests>>

\* The sum of column col over a set of run rows.
RECURSIVE SumOfColumn(_, _)
SumOfColumn(rows, col) ==
    IF rows = {} THEN 0
    ELSE LET r == CHOOSE x \in rows : TRUE
         IN  r[col] + SumOfColumn(rows \ {r}, col)

\* The pooled rate 100 * SUM(passed) / SUM(total_tests) in place of the
\* average of the runs' rates.
AveragePassRatePooled(d) ==
    LET rated == {r \in d.runs : r.total_tests # 0}
    IN  IF rated = {} THEN 0
        ELSE RoundHalfEven(100 * 100 * SumOfColumn(rated, "passed"),
                           SumOfColumn(rated, "total_tests"))

\* SELECT AVG(CAST(passed AS FLOAT) / NULLIF(total_tests, 0) * 100) FROM
\* test_runs, then "or 0" and round(avg_pass_rate, 2); the value is counted in
\* hundredths (9000 is 90.0).  NULLIF makes the ratio of a run without tests
\* NULL, and AVG skips NULLs.
AveragePassRate(d) ==
    LET rated == {r \in d.runs : r.total_tests # 0}
        sum   == SumOfRatios(rated)
    IN  IF rated = {} THEN 0
        ELSE RoundHalfEven(100 * 100 * sum[1], sum[2] * Cardinality(rated))

\* LIMIT of the most_failed_tests query.
MostFailedLimit == 5

\* The groups of "SELECT test_name, COUNT(*) ... WHERE outcome = 'failed'
\* GROUP BY test_name".
FailedGroups(d) ==
    {[test_name |-> n,
      fail_count |-> Cardinality({x \in d.results :
                                    x.test_name = n /\ x.outcome = "failed"})] :
       n \in {x.test_name : x \in {y \in d.results : y.outcome = "failed"}}}

\* The orders in which "ORDER BY fail_count DESC" may deliver the groups.
RECURSIVE MostFailedFirst(_)
MostFailedFirst(rows) ==
    IF rows = {} THEN {<<>>}
    ELSE LET top == {r \in rows : \A q \in rows : q.fail_count <= r.fail_count}
         IN  UNION {{<<r>> \o rest : rest \in MostFailedFirst(rows \ {r})} : r \in top}

\* The lists the most_failed_tests query may return on database d.
MostFailedTests(d) ==
    {SubSeq(o, 1, Min(MostFailedLimit, Len(o))) : o \in MostFailedFirst(FailedGroups(d))}

\* get_statistics, first statement: SELECT COUNT(*) FROM test_runs.  Each
\* statement of a reader is a read of its own on the committed database: the
\* connection opens no transaction around them.
StatsCount ==
    /\ rd.pc = "idle"
    /\ rd' = [pc |-> "stats_avg", total_runs |-> Cardinality(db.runs),
              average_pass_rate |-> 0]
    /\ out' = NoOut
    /\ UNCHANGED <<clock, db, tx, pc, call, idx, ret, recorded, error_storage, error_statistics, returned, otherVars>>

\* get_statistics, second statement: the average pass rate.
StatsAvg ==
    /\ rd.pc = "stats_avg"
    /\ rd' = [rd EXCEPT !.pc = "stats_failed",
                        !.average_pass_rate = AveragePassRate(db)]
    /\ out' = NoOut
    /\ UNCHANGED <<clock, db, tx, pc, call, idx, ret, recorded, error_storage, error_statistics, returned, otherVars>>

\* get_statistics, third statement (the most failed tests) and the return.
\* The fourth statement averages the duration column, which the model does
\* not carry.
StatsFailed ==
    /\ rd.pc = "stats_failed"
    /\ \E l \in MostFailedTests(db) :
          out' = [op |-> "get_statistics", total_runs |-> rd.total_runs,
                  average_pass_rate |-> rd.average_pass_rate,
                  most_failed_tests |-> l]
    /\ rd' = NoRead
    /\ UNCHANGED <<clock, db, tx, pc, call, idx, ret, recorded, error_storage, error_statistics, returned, otherVars>>

Init ==
    /\ clock = 0
    /\ db = EmptyDb
    /\ tx = EmptyDb
    /\ pc = "idle"
    /\ call = NoCall
    /\ idx = 1
    /\ ret = NoRet
    /\ recorded = [n \in Names |-> <<>>]
    /\ rd = NoRead
    /\ out = NoOut
    /\ error_storage = EmptyDict
    /\ error_statistics = EmptyDict
    /\ returned = <<>>
    /\ session = "new"
    /\ config = [enable_tracking |-> FALSE, enable_realtime |-> FALSE]
    /\ _history_tracker = [none |-> TRUE]
    /\ _test_results = <<>>
    /\ historical_data = [none |-> TRUE]
    /\ report = [none |-> TRUE]
    /\ _dashboard_realtime = [none |-> TRUE]
    /\ faults = {}
    /\ current_state = [status |-> "idle", tests |-> <<>>,
                        summary |-> [total |-> 0, passed |-> 0, failed |-> 0,
                                     skipped |-> 0, running |-> 0],
                        current_test |-> [none |-> TRUE]]
    /\ starts = 0
    /\ ends = <<>>
    /\ solution_cache = EmptyDict
    /\ analysis = [op |-> "none"]

Next ==
    \/ \E tests \in TestLists : SaveBegin(Summarize(tests), tests)
    \/ SaveTest
    \/ SaveRaise
    \/ SaveCommit
    \/ \E days \in Retentions : ClearOldData(days)
    \/ Tick

Spec == Init /\ [][Next]_vars

\* The variables of the History Store and of the error store.
historyVars == <<clock, db, tx, pc, call, idx, ret, recorded, rd, out, returned>>

errorVars == <<error_storage, error_statistics>>

(* ----------------- the store driven through its API: statistics -------- *)

\* The summaries given to save_test_run directly, as (total, passed).
Summaries ==
    {[total |-> 0, passed |-> 0], [total |-> 3, passed |-> 1],
     [total |-> 5, passed |-> 5], [total |-> 10, passed |-> 8]}

NextStats ==
    \/ \E summary \in Summaries : SaveBegin(summary, <<>>)
    \/ SaveCommit
    \/ StatsCount
    \/ StatsAvg
    \/ StatsFailed
    \/ Tick

SpecStats == Init /\ [][NextStats]_vars

(* ------------- the store with readers on other connections ------------ *)

\* The number of runs saved while readers run.
MaxConcRuns == 2

\* The sessions saved while readers run: no skipped tests.
ConcLists == {l \in TestLists : \A i \in DOMAIN l : l[i].outcome # "skipped"}

NextConc ==
    \/ /\ db.run_seq < MaxConcRuns
       /\ \E tests \in ConcLists : SaveBegin(Summarize(tests), tests)
    \/ SaveTest
    \/ SaveRaise
    \/ SaveCommit
    \/ ReadTrend(TrendLimitDefault)
    \/ \E min_flips \in {1, MinFlipsDefault} : ReadFlaky(min_flips)
    \/ \E n \in Names : ReadHistory(n, HistoryLimitDefault)
    \/ StatsCount
    \/ StatsAvg
    \/ StatsFailed
    \/ Tick

SpecConc == Init /\ [][NextConc]_vars

(* ------------------------------ get_trends ----------------------------- *)

\* The columns of table test_runs (CREATE TABLE, lines 29-44).
TestRunsColumns ==
    {"run_id", "timestamp", "total_tests", "passed", "failed", "skipped",
     "errors", "duration", "branch", "commit_hash", "environment", "metadata"}

\* The columns of test_runs that the pass rate statement of get_trends names.
PassRateColumns == {"timestamp", "pass_rate"}

\* The default of get_trends's days.
TrendDaysDefault == 7

\* The values of days get_trends is called with.
TrendDays == {0, TrendDaysDefault}

\* AVG(pass_rate) over a set of run rows, in hundredths; 0 stands for the
\* NULL of an empty set ("row[0] or 0").
AvgPassRateColumn(rows) ==
    IF rows = {} THEN 0
    ELSE RoundHalfEven(100 * SumOfColumn(rows, "pass_rate"), Cardinality(rows))

\* get_trends(days) on database d at second now.  SQLite refuses a statement
\* that names a column the table does not have: execute raises
\* OperationalError.  The rows of the model carry no duration other than the
\* default 0.0, so the average duration is 0.
get_trends(d, days, now) ==
    LET recent_runs == {r \in d.runs : r.timestamp >= Cutoff(now, days)}
        old_runs == {r \in d.runs : r.timestamp < Cutoff(now, days)}
        total_runs == Cardinality(recent_runs)
    IN  IF ~(PassRateColumns \subseteq TestRunsColumns)
        THEN [op |-> "get_trends", days |-> days, at |-> now, raised |-> TRUE,
              error |-> "OperationalError: no such column: pass_rate"]
        ELSE LET recent_rate == AvgPassRateColumn(recent_runs)
                 old_rate == IF AvgPassRateColumn(old_runs) = 0 THEN recent_rate
                             ELSE AvgPassRateColumn(old_runs)
             IN  [op |-> "get_trends", days |-> days, at |-> now,
                  raised |-> FALSE, total_runs |-> total_runs,
                  pass_rate_change |-> recent_rate - old_rate,
                  flaky_tests |-> Cardinality(d.flaky), avg_duration |-> 0]

\* A call of get_trends(days) on a reading connection.
GetTrends(days) ==
    /\ rd.pc = "idle"
    /\ out' = get_trends(db, days, clock)
    /\ UNCHANGED <<clock, db, tx, pc, call, idx, ret, recorded, rd, error_storage, error_statistics, returned, otherVars>>

\* The store with get_trends: sessions are saved, seconds pass, old runs are
\* pruned and the trend summary is asked for.
NextTrends ==
    \/ \E summary \in Summaries : SaveBegin(summary, <<>>)
    \/ SaveCommit
    \/ ClearOldData(0)
    \/ Tick
    \/ \E days \in TrendDays : GetTrends(days)

SpecTrends == Init /\ [][NextTrends]_vars

(* ======================================================================= *)
(*                 error_reporting.py: classifier and store                *)
(* ======================================================================= *)

(* ------------- the store under every operation of its API ------------- *)

\* The sessions saved: one test, two tests, and one on which the save raises.
RowLists ==
    {<<[name |-> "test_a", outcome |-> "passed"]>>,
     <<[name |-> "test_a", outcome |-> "failed"], [name |-> "test_b", outcome |-> "passed"]>>,
     <<[name |-> "test_b", outcome |-> "failed"], BadTest>>}

NextRows ==
    \/ /\ db.run_seq < MaxConcRuns
       /\ \E tests \in RowLists : SaveBegin(Summarize(tests), tests)
    \/ SaveTest
    \/ SaveRaise
    \/ SaveCommit
    \/ ReadTrend(TrendLimitDefault)
    \/ ReadFlaky(1)
    \/ \E n \in Names : ReadHistory(n, HistoryLimitDefault)
    \/ StatsCount
    \/ StatsAvg
    \/ StatsFailed
    \/ GetTrends(TrendDaysDefault)
    \/ \E days \in Retentions : ClearOldData(days)
    \/ Tick

SpecRows == Init /\ [][NextRows]_vars

(* ------------------------------- strings ------------------------------- *)

UpperCase == "ABCDEFGHIJKLMNOPQRSTUVWXYZ"
LowerCase == "abcdefghijklmnopqrstuvwxyz"

\* The lower-case letter of each upper-case letter.
ToLower ==
    [c \in {SubSeq(UpperCase, i, i) : i \in 1..Len(UpperCase)} |->
        LET i == CHOOSE j \in 1..Len(UpperCase) : SubSeq(UpperCase, j, j) = c
        IN  SubSeq(LowerCase, i, i)]

\* str.lower() on one character.
LowerChar(c) == IF c \in DOMAIN ToLower THEN ToLower[c] ELSE c

\* str.lower(), computed by halves.
RECURSIVE Lower(_)
Lower(s) ==
    IF Len(s) = 0 THEN ""
    ELSE IF Len(s) = 1 THEN LowerChar(s)
    ELSE Lower(SubSeq(s, 1, Len(s) \div 2))
         \o Lower(SubSeq(s, Len(s) \div 2 + 1, Len(s)))

\* sub occurs in s at index i.
StartsAt(s, i, sub) ==
    /\ i + Len(sub) - 1 <= Len(s)
    /\ SubSeq(s, i, i + Len(sub) - 1) = sub

\* "sub in s".
Contains(s, sub) == \E i \in 1..Len(s) : StartsAt(s, i, sub)

\* s.find(sub, from): the first index at or after from where sub occurs, 0
\* when there is none (indices start at 1).
Find(s, sub, from) ==
    LET hits == {i \in from..Len(s) : StartsAt(s, i, sub)}
    IN  IF hits = {} THEN 0 ELSE CHOOSE i \in hits : \A j \in hits : i <= j

\* s.split('\n')[0].
FirstLine(s) ==
    LET nl == Find(s, "\n", 1)
    IN  IF nl = 0 THEN s ELSE SubSeq(s, 1, nl - 1)

\* s.split('\n').
RECURSIVE Lines(_)
Lines(s) ==
    LET nl == Find(s, "\n", 1)
    IN  IF nl = 0 THEN <<s>>
        ELSE <<SubSeq(s, 1, nl - 1)>> \o Lines(SubSeq(s, nl + 1, Len(s)))

\* s.replace(old, '').
RECURSIVE Remove(_, _)
Remove(s, old) ==
    LET at == Find(s, old, 1)
    IN  IF at = 0 THEN s
        ELSE SubSeq(s, 1, at - 1) \o Remove(SubSeq(s, at + Len(old), Len(s)), old)

Whitespace == {" ", "\n", "\t", "\r"}

\* s.strip().
Strip(s) ==
    LET inked == {i \in 1..Len(s) : SubSeq(s, i, i) \notin Whitespace}
    IN  IF inked = {} THEN ""
        ELSE SubSeq(s, CHOOSE i \in inked : \A j \in inked : i <= j,
                       CHOOSE i \in inked : \A j \in inked : j <= i)

(* ---------------------------- ErrorClassifier -------------------------- *)

\* ERROR_PATTERNS in the order of the dict.  Every pattern of the table has the
\* form .*L1.*L2...Ln.* with plain literals Li; it is written here as the list
\* of its literals.
ERROR_PATTERNS == <<
    [category |-> "ASSERTION_FAILURE",
     patterns |-> << <<"AssertionError">>, <<"assert", "failed">>,
                     <<"expected", "but", "got">>, <<"assertion", "error">> >>],
    [category |-> "TIMEOUT_ERROR",
     patterns |-> << <<"timeout">>, <<"timed out">>, <<"TimeoutException">>,
                     <<"connection", "timeout">> >>],
    [category |-> "CONNECTION_ERROR",
     patterns |-> << <<"connection", "error">>, <<"connection", "refused">>,
                     <<"connection", "failed">>, <<"cannot connect">> >>],
    [category |-> "NETWORK_ERROR",
     patterns |-> << <<"network", "error">>, <<"host", "unreachable">>,
                     <<"dns", "resolution", "failed">>, <<"socket", "error">> >>],
    [category |-> "PERMISSION_ERROR",
     patterns |-> << <<"permission", "denied">>, <<"access", "denied">>,
                     <<"insufficient", "privileges">>, <<"SecurityException">> >>],
    [category |-> "FILE_NOT_FOUND",
     patterns |-> << <<"file", "not", "found">>, <<"FileNotFoundError">>,
                     <<"path", "does", "not", "exist">>, <<"No such file">> >>],
    [category |-> "CONFIGURATION_ERROR",
     patterns |-> << <<"config", "error">>, <<"configuration", "invalid">>,
                     <<"settings", "not", "found">>, <<"yaml", "error">>,
                     <<"json", "error">> >>],
    [category |-> "IMPORT_ERROR",
     patterns |-> << <<"ImportError">>, <<"ModuleNotFoundError">>,
                     <<"cannot import">>, <<"import", "failed">> >>],
    [category |-> "VALUE_ERROR",
     patterns |-> << <<"ValueError">>, <<"invalid", "value">>,
                     <<"value", "error">> >>],
    [category |-> "TYPE_ERROR",
     patterns |-> << <<"TypeError">>, <<"type", "error">>,
                     <<"unexpected", "type">> >>],
    [category |-> "ATTRIBUTE_ERROR",
     patterns |-> << <<"AttributeError">>, <<"attribute", "not", "found">>,
                     <<"has no attribute">> >>],
    [category |-> "KEY_ERROR",
     patterns |-> << <<"KeyError">>, <<"key", "not", "found">>,
                     <<"missing", "key">> >>],
    [category |-> "INDEX_ERROR",
     patterns |-> << <<"IndexError">>, <<"index", "out", "of", "range">>,
                     <<"list", "index">> >>] >>

\* The table as re compiles it under re.IGNORECASE: letters match without
\* regard to case.  classify_error searches a text that is lower case already
\* (line 131), so the flag only bears on the letters of the patterns.
CompiledPatterns ==
    [i \in DOMAIN ERROR_PATTERNS |->
        [category |-> ERROR_PATTERNS[i].category,
         patterns |-> [p \in DOMAIN ERROR_PATTERNS[i].patterns |->
                         [l \in DOMAIN ERROR_PATTERNS[i].patterns[p] |->
                             Lower(ERROR_PATTERNS[i].patterns[p][l])]]]]

\* The rest of a match from index pos on: each further literal after a gap
\* ".*", which takes any characters but the newline.
RECURSIVE MatchRest(_, _, _)
MatchRest(text, pos, literals) ==
    \/ literals = <<>>
    \/ \E j \in pos..Len(text) :
          /\ StartsAt(text, j, Head(literals))
          /\ \A k \in pos..(j - 1) : SubSeq(text, k, k) # "\n"
          /\ MatchRest(text, j + Len(Head(literals)), Tail(literals))

\* re.search(pattern, text) is a match: the leading ".*" lets the first
\* literal stand anywhere, the trailing one matches the empty string.
re_search(pattern, text) ==
    \E i \in 1..Len(text) :
        /\ StartsAt(text, i, Head(pattern))
        /\ MatchRest(text, i + Len(Head(pattern)), Tail(pattern))

\* Some pattern of the rule matches the text.
AnyPatternMatches(rule, text) ==
    \E p \in DOMAIN rule.patterns : re_search(rule.patterns[p], text)

\* The loop of classify_error from rule i on.
RECURSIVE ClassifyFrom(_, _)
ClassifyFrom(i, error_text) ==
    IF i > Len(CompiledPatterns) THEN "UNKNOWN"
    ELSE IF AnyPatternMatches(CompiledPatterns[i], error_text)
         THEN CompiledPatterns[i].category
         ELSE ClassifyFrom(i + 1, error_text)

\* The category of the last rule that matches, in place of the first.
ClassifyLastMatch(error_message, stack_trace) ==
    LET error_text == Lower(error_message \o " " \o stack_trace)
        hits == {i \in DOMAIN CompiledPatterns :
                   AnyPatternMatches(CompiledPatterns[i], error_text)}
    IN  IF hits = {} THEN "UNKNOWN"
        ELSE CompiledPatterns[CHOOSE i \in hits : \A j \in hits : j <= i].category

\* A classifier without the final "return 'UNKNOWN'": None when no rule matches.
ClassifyWithoutFallback(error_message, stack_trace) ==
    LET error_text == Lower(error_message \o " " \o stack_trace)
        hits == {i \in DOMAIN CompiledPatterns :
                   AnyPatternMatches(CompiledPatterns[i], error_text)}
    IN  IF hits = {} THEN "None"
        ELSE CompiledPatterns[CHOOSE i \in hits : \A j \in hits : i <= j].category

\* ErrorClassifier.classify_error(error_message, stack_trace).
classify_error(error_message, stack_trace) ==
    ClassifyFrom(1, Lower(error_message \o " " \o stack_trace))

\* SUGGESTED_ACTIONS.
SUGGESTED_ACTIONS == [
    ASSERTION_FAILURE |-> "Review test logic, verify expected values, check test data validity",
    TIMEOUT_ERROR |-> "Increase timeout values, check performance, verify system responsiveness",
    CONNECTION_ERROR |-> "Verify connection parameters, check service availability, review network settings",
    NETWORK_ERROR |-> "Check network connectivity, verify IP addresses/URLs, test network access",
    PERMISSION_ERROR |-> "Run with elevated privileges, check file/directory permissions",
    FILE_NOT_FOUND |-> "Verify file paths, check if files were created, review test setup",
    CONFIGURATION_ERROR |-> "Validate configuration files, check syntax, verify settings",
    IMPORT_ERROR |-> "Check module installation, verify dependencies, review Python path",
    VALUE_ERROR |-> "Validate input values, check data types, review function parameters",
    TYPE_ERROR |-> "Verify data types, check type conversions, review function signatures",
    ATTRIBUTE_ERROR |-> "Check object attributes, verify class definitions, review API usage",
    KEY_ERROR |-> "Verify dictionary keys, check data structure, validate JSON/dict access",
    INDEX_ERROR |-> "Check list bounds, verify array access, validate index values",
    UNKNOWN |-> "Review error message and stack trace, check logs for additional context"]

\* SUGGESTED_ACTIONS.get(category): no default, None for a name not in the table.
SuggestedActionOrNone(category) ==
    IF category \in DOMAIN SUGGESTED_ACTIONS THEN SUGGESTED_ACTIONS[category]
    ELSE "None"

\* ErrorClassifier.get_suggested_action(category).
get_suggested_action(category) ==
    IF category \in DOMAIN SUGGESTED_ACTIONS THEN SUGGESTED_ACTIONS[category]
    ELSE SUGGESTED_ACTIONS["UNKNOWN"]

(* ----------------------------- ErrorExtractor -------------------------- *)

\* The value None of an Optional[ErrorDetails].
None == [none |-> TRUE]

\* No exception passed (exception=None).
NoException == [type |-> "None", message |-> ""]

\* ErrorDetails(...); error_code and affected_component keep their default
\* None and are left out.
ErrorDetails(error_type, error_message, error_category, stack_trace, now, suggested_action) ==
    [error_type |-> error_type, error_message |-> error_message,
     error_category |-> error_category, stack_trace |-> stack_trace,
     test_step |-> "None", timestamp |-> now,
     suggested_action |-> suggested_action]

\* The list error_types of extract_from_pytest_log.
error_types == <<"RuntimeError", "AssertionError", "TimeoutException",
                 "TimeoutError", "ValueError", "TypeError", "AttributeError",
                 "KeyError", "IndexError", "ImportError", "ModuleNotFoundError",
                 "FileNotFoundError", "ConnectionError", "NetworkError",
                 "PermissionError">>

\* The fallback loop over the lines from line i on: the message of the first
\* "E   " line that has one, "" when there is none.
RECURSIVE FallbackMessage(_, _)
FallbackMessage(lines, i) ==
    IF i > Len(lines) THEN ""
    ELSE LET message == Strip(Remove(lines[i], "E   "))
         IN  IF StartsAt(Strip(lines[i]), 1, "E   ") /\ message # ""
             THEN message
             ELSE FallbackMessage(lines, i + 1)

\* ErrorExtractor.extract_from_pytest_log(log_content) at second now.
extract_from_pytest_log(log_content, now) ==
    IF log_content = "" THEN None
    ELSE
    LET found == {i \in DOMAIN error_types :
                    Contains(log_content, error_types[i] \o ":")}
        err_type == error_types[CHOOSE i \in found : \A j \in found : i <= j]
        error_type == IF found = {} THEN "Unknown" ELSE err_type
        typed == IF found = {} THEN ""
                 ELSE LET error_start == Find(log_content, err_type \o ":", 1)
                          error_line == FirstLine(SubSeq(log_content, error_start,
                                                         Len(log_content)))
                      IN  Strip(Remove(error_line, err_type \o ": "))
        extracted == IF typed # "" THEN typed
                     ELSE FallbackMessage(Lines(log_content), 1)
        stack_trace ==
            IF Contains(log_content, "Traceback")
            THEN LET traceback_start == Find(log_content, "Traceback", 1)
                     blank == Find(log_content, "\n\n", traceback_start)
                     traceback_end == IF blank = 0 THEN Len(log_content) + 1
                                      ELSE blank
                 IN  Strip(SubSeq(log_content, traceback_start, traceback_end - 1))
            ELSE ""
        error_message == IF extracted = "" THEN "Test execution failed"
                         ELSE extracted
        error_category == classify_error(error_message, stack_trace)
    IN  ErrorDetails(error_type, error_message, error_category, stack_trace,
                     now, get_suggested_action(error_category))

\* traceback.format_exc(): the traceback of the exception being handled when
\* the call is made inside its except block, "NoneType: None" outside one.
format_exc(exception, handled) ==
    IF handled
    THEN "Traceback (most recent call last):\n"
         \o "  File \"test_x.py\", line 1, in test_x\n"
         \o exception.type
         \o (IF exception.message = "" THEN "" ELSE ": " \o exception.message)
         \o "\n"
    ELSE "NoneType: None\n"

\* An extractor that classifies the class name together with the message.
ExtractClassifyingTheClass(exception, handled, now) ==
    LET error_type == exception.type
        error_message == exception.message
        stack_trace == format_exc(exception, handled)
        error_category == classify_error(error_type \o ": " \o error_message,
                                         stack_trace)
    IN  ErrorDetails(error_type, error_message, error_category, stack_trace,
                     now, get_suggested_action(error_category))

\* ErrorExtractor.extract_from_exception(exception) at second now.
extract_from_exception(exception, handled, now) ==
    LET error_type == exception.type
        error_message == exception.message
        stack_trace == format_exc(exception, handled)
        error_category == classify_error(error_message, stack_trace)
    IN  ErrorDetails(error_type, error_message, error_category, stack_trace,
                     now, get_suggested_action(error_category))

(* -------------------------- EnhancedErrorReporter ---------------------- *)

\* The number of ErrorDetails kept by the store.
MaxErrors == 3

ErrorTestIds == {"tests/test_x.py::test_one", "tests/test_x.py::test_two"}

Exceptions == {[type |-> "ValueError", message |-> "bad input"],
               [type |-> "ConnectionError", message |-> "Connection refused: timed out"],
               [type |-> "RuntimeError", message |-> "something odd"]}

Logs == {"E   assert 1 == 2",
         "Traceback (most recent call last):\n  File \"t.py\", line 3\nKeyError: 'k'\n\ncaptured",
         "ValueError: invalid value\n",
         "no error here"}

\* The argument pairs of capture_test_error: an exception alone, a log alone,
\* both, neither.
CaptureInputs ==
    {[log_content |-> "", exception |-> e] : e \in Exceptions}
    \cup {[log_content |-> l, exception |-> NoException] : l \in Logs}
    \cup {[log_content |-> "ValueError: invalid value\n",
           exception |-> [type |-> "RuntimeError", message |-> "something odd"]],
          [log_content |-> "", exception |-> NoException]}

\* extract_from_exception and extract_from_pytest_log are functions of their
\* arguments: their values on the arguments above, computed once.
ExceptionDetails ==
    [e \in Exceptions, handled \in BOOLEAN, now \in 0..MaxClock |->
        extract_from_exception(e, handled, now)]

LogDetails ==
    [l \in Logs, now \in 0..MaxClock |-> extract_from_pytest_log(l, now)]

\* dict.get(key, default).
Get(dict, key, default) == IF key \in DOMAIN dict THEN dict[key] ELSE default

\* The number of ErrorDetails in the store.
StoredErrors ==
    Cardinality({<<t, i>> \in ErrorTestIds \X (1..MaxErrors) :
                    t \in DOMAIN error_storage /\ i \in DOMAIN error_storage[t]})

\* The statistic of the category is set to 1 whatever it was.
SetStatisticToOne(statistics, category) == (category :> 1) @@ statistics

\* error_statistics[category] = error_statistics.get(category, 0) + 1.
IncrementStatistic(statistics, category) ==
    (category :> Get(statistics, category, 0) + 1) @@ statistics

\* capture_test_error(test_id, log_content, exception).  An exception object
\* is truthy, so a given exception is taken before the log.
CaptureTestError(test_id, log_content, exception) ==
    /\ StoredErrors < MaxErrors
    /\ \E handled \in BOOLEAN :
          LET error_details ==
                  IF exception # NoException
                  THEN ExceptionDetails[exception, handled, clock]
                  ELSE IF log_content # ""
                       THEN LogDetails[log_content, clock]
                       ELSE None
          IN  /\ IF error_details # None
                 THEN /\ error_storage' =
                            (test_id :> Append(Get(error_storage, test_id, <<>>),
                                               error_details)) @@ error_storage
                      /\ error_statistics' =
                            IncrementStatistic(error_statistics,
                                               error_details.error_category)
                 ELSE UNCHANGED <<error_storage, error_statistics>>
              /\ ret' = [op |-> "capture_test_error", raised |-> FALSE,
                         test_id |-> test_id, log_content |-> log_content,
                         exception |-> exception, value |-> error_details]
    /\ out' = NoOut
    /\ UNCHANGED <<clock, db, tx, pc, call, idx, recorded, rd, returned, otherVars>>

\* A read that hands the records of the test over and forgets them.
GetTestErrorsConsuming(test_id) ==
    /\ out' = [op |-> "get_test_errors", test_id |-> test_id,
               value |-> Get(error_storage, test_id, <<>>)]
    /\ error_storage' = [t \in DOMAIN error_storage \ {test_id} |-> error_storage[t]]
    /\ UNCHANGED <<clock, db, tx, pc, call, idx, ret, recorded, rd,
                   error_statistics, returned, otherVars>>

\* get_test_errors(test_id).
GetTestErrors(test_id) ==
    /\ out' = [op |-> "get_test_errors", test_id |-> test_id,
               value |-> Get(error_storage, test_id, <<>>)]
    /\ UNCHANGED <<clock, db, tx, pc, call, idx, ret, recorded, rd,
                   error_storage, error_statistics, returned, otherVars>>

\* get_error_summary(): a copy of error_statistics.
GetErrorSummary ==
    /\ out' = [op |-> "get_error_summary", value |-> error_statistics]
    /\ UNCHANGED <<clock, db, tx, pc, call, idx, ret, recorded, rd,
                   error_storage, error_statistics, returned, otherVars>>

\* The category names asked of get_suggested_action: those of the table and
\* three that are not in it.
CategoryNames == DOMAIN SUGGESTED_ACTIONS \cup {"", "unknown", "SYNTAX_ERROR"}

\* A call of ErrorClassifier.get_suggested_action(category).
GetSuggestedAction(category) ==
    /\ out' = [op |-> "get_suggested_action", category |-> category,
               value |-> get_suggested_action(category)]
    /\ UNCHANGED <<clock, db, tx, pc, call, idx, ret, recorded, rd,
                   error_storage, error_statistics, returned, otherVars>>

NextErr ==
    \/ \E test_id \in ErrorTestIds : \E input \in CaptureInputs :
          CaptureTestError(test_id, input.log_content, input.exception)
    \/ \E test_id \in ErrorTestIds : GetTestErrors(test_id)
    \/ GetErrorSummary
    \/ \E category \in CategoryNames : GetSuggestedAction(category)

SpecErr == Init /\ [][NextErr]_vars

(* ------------------------ classify_error on its own -------------------- *)

Messages == {"",
             "AssertionError: expected 1 but got 2",
             "Connection refused: timed out",
             "Connection refused",
             "connection\nrefused",
             "refused connection",
             "Network error: host unreachable",
             "Permission denied",
             "No such file or directory",
             "config error",
             "cannot import name x",
             "invalid value",
             "unexpected type",
             "object has no attribute x",
             "missing key",
             "list index out of range",
             "socket error: permission denied",
             "something odd"}

Traces == {"",
           "TimeoutException",
           "KeyError: 'k'",
           "NoneType: None\n",
           "socket closed\nerror 104",
           "Traceback (most recent call last):\n  File \"t.py\", line 3\nValueError: bad input\n"}

\* A call of ErrorClassifier.classify_error.
ClassifyError(error_message, stack_trace) ==
    /\ ret' = [op |-> "classify_error", raised |-> FALSE,
               error_message |-> error_message, stack_trace |-> stack_trace,
               category |-> classify_error(error_message, stack_trace)]
    /\ UNCHANGED <<clock, db, tx, pc, call, idx, recorded, rd, out,
                   error_storage, error_statistics, returned, otherVars>>

NextClassify ==
    \E error_message \in Messages : \E stack_trace \in Traces :
        ClassifyError(error_message, stack_trace)

SpecClassify == Init /\ [][NextClassify]_vars

(* --------------------------- RealtimeDashboard ------------------------- *)

\* RealtimeDashboard.__init__: enable_websocket, which the plugin leaves at
\* its default.
enable_websocket == TRUE

\* The methods class RealtimeDashboard defines.
RealtimeDashboardMethods ==
    {"start", "stop", "update_test_start", "update_test_end", "update_progress",
     "get_state", "_broadcast", "_save_state_file", "_run_server",
     "generate_realtime_html"}

\* RealtimeDashboard.start(): current_state afterwards.
start(state) ==
    IF ~enable_websocket THEN state
    ELSE [state EXCEPT !.status = "running"]

\* RealtimeDashboard.stop().
stop(state) == [state EXCEPT !.status = "completed"]

\* RealtimeDashboard.update_test_start(test_name, test_id).
update_test_start(state, test_name, test_id) ==
    [state EXCEPT
       !.current_test = [name |-> test_name, id |-> test_id, status |-> "running"],
       !.summary.running = @ + 1]

\* An update_test_end that counts the test only when its outcome is one of
\* passed, failed and skipped.
UpdateTestEndCountsKnown(state, test_name, test_id, outcome) ==
    [state EXCEPT
       !.summary = [@ EXCEPT
           !.passed = IF outcome = "passed" THEN @ + 1 ELSE @,
           !.failed = IF outcome = "failed" THEN @ + 1 ELSE @,
           !.skipped = IF outcome = "skipped" THEN @ + 1 ELSE @,
           !.running = IF @ - 1 > 0 THEN @ - 1 ELSE 0,
           !.total = IF outcome \in {"passed", "failed", "skipped"} THEN @ + 1 ELSE @],
       !.tests = Append(@, [name |-> test_name, id |-> test_id, outcome |-> outcome])]

\* RealtimeDashboard.update_test_end(test_name, test_id, outcome, ...).
update_test_end(state, test_name, test_id, outcome) ==
    [state EXCEPT
       !.summary = [@ EXCEPT
           !.passed = IF outcome = "passed" THEN @ + 1 ELSE @,
           !.failed = IF outcome = "failed" THEN @ + 1 ELSE @,
           !.skipped = IF outcome = "skipped" THEN @ + 1 ELSE @,
           !.running = IF @ - 1 > 0 THEN @ - 1 ELSE 0,
           !.total = @ + 1],
       !.tests = Append(@, [name |-> test_name, id |-> test_id, outcome |-> outcome])]

\* The number of update_test_start and of update_test_end calls made on the
\* dashboard.
MaxCalls == 3

\* The outcomes reported to update_test_end.
RealtimeOutcomes == {"passed", "failed", "skipped", "error"}

\* A call of start().
Start ==
    /\ current_state' = start(current_state)
    /\ UNCHANGED <<historyVars, errorVars, analyzerVars, pluginVars, starts, ends>>

\* A call of stop().
Stop ==
    /\ current_state' = stop(current_state)
    /\ UNCHANGED <<historyVars, errorVars, analyzerVars, pluginVars, starts, ends>>

\* A call of update_test_start(test_name, test_id).
UpdateTestStart(test_name) ==
    /\ starts < MaxCalls
    /\ current_state' = update_test_start(current_state, test_name, test_name)
    /\ starts' = starts + 1
    /\ UNCHANGED <<historyVars, errorVars, analyzerVars, pluginVars, ends>>

\* A call of update_test_end(test_name, test_id, outcome, duration).
UpdateTestEnd(test_name, outcome) ==
    /\ Len(ends) < MaxCalls
    /\ current_state' = update_test_end(current_state, test_name, test_name, outcome)
    /\ ends' = Append(ends, outcome)
    /\ UNCHANGED <<historyVars, errorVars, analyzerVars, pluginVars, starts>>

NextRealtime ==
    \/ Start
    \/ Stop
    \/ \E n \in Names : UpdateTestStart(n)
    \/ \E n \in Names : \E outcome \in RealtimeOutcomes : UpdateTestEnd(n, outcome)

SpecRealtime == Init /\ [][NextRealtime]_vars

(* ------------------------- the hooks of the plugin --------------------- *)

\* The base class of an exception class.
ExceptionBase ==
    [sqlite3_OperationalError |-> "sqlite3_DatabaseError",
     sqlite3_DatabaseError |-> "sqlite3_Error",
     sqlite3_Error |-> "Exception",
     AttributeError |-> "Exception",
     RuntimeError |-> "Exception",
     ImportError |-> "Exception",
     Exception |-> "BaseException"]

\* isinstance(e, cls) for an exception of class e.
RECURSIVE IsInstance(_, _)
IsInstance(e, cls) ==
    \/ e = cls
    \/ e \in DOMAIN ExceptionBase /\ IsInstance(ExceptionBase[e], cls)

\* A clause "except ImportError": it lets the errors of the store through.
except_ImportError(e) == IsInstance(e, "ImportError")

\* The clause "except Exception as e" of the hooks and of
\* enhance_html_report_dashboard: does it catch an exception of class e?
except_Exception(e) == IsInstance(e, "Exception")

\* The object plugin._history_tracker holds after a successful TestHistory().
TheHistoryTracker == [db_path |-> "test-history.db"]

\* The object config._dashboard_realtime holds after a successful start.
TheRealtimeServer == [port |-> 8888]

\* TestHistory(db_path): sqlite3.connect or a CREATE statement may raise.
InitOutcomes == {"ok", "sqlite3_OperationalError"}

\* The flags of reporter_config the hooks read.
Flags == [enable_tracking : BOOLEAN, enable_realtime : BOOLEAN]

\* pytest_configure: the history tracker and the realtime dashboard.
PytestConfigure(flags, init, thread) ==
    /\ session = "new"
    /\ config' = flags
    /\ LET raised == flags.enable_tracking /\ init # "ok"
           caught == raised /\ except_Exception(init)
       IN  /\ _history_tracker' =
                 IF ~flags.enable_tracking THEN _history_tracker
                 ELSE IF raised THEN None ELSE TheHistoryTracker
           /\ faults' = IF raised THEN faults \cup {"init"} ELSE faults
           /\ IF raised /\ ~caught
              THEN /\ session' = "aborted"
                   /\ UNCHANGED <<_dashboard_realtime, current_state>>
              ELSE /\ session' = "configured"
                   /\ IF flags.enable_realtime
                      THEN /\ current_state' = start(current_state)
                           /\ _dashboard_realtime' =
                                 IF thread = "ok" THEN TheRealtimeServer ELSE None
                      ELSE UNCHANGED <<_dashboard_realtime, current_state>>
    /\ UNCHANGED <<historyVars, errorVars, analyzerVars, _test_results, historical_data,
                   report, starts, ends>>

\* pytest_runtest_makereport for the call phase of a test: the result is
\* kept under its nodeid; emit_test_result and save_test_result are methods
\* neither RealtimeDashboard nor TestHistory has, and the AttributeError is
\* passed over; the error of a failed test is captured from its exception,
\* outside any except block.
PytestRuntestMakereport(test, exception) ==
    /\ session \in {"configured", "running"}
    /\ Len(_test_results) < MaxTests
    /\ \A i \in DOMAIN _test_results : _test_results[i].name # test.name
    /\ _test_results' = Append(_test_results, test)
    /\ session' = "running"
    /\ IF test.outcome = "failed"
       THEN LET error_details == ExceptionDetails[exception, FALSE, clock]
            IN  /\ error_storage' =
                      (test.name :> Append(Get(error_storage, test.name, <<>>),
                                           error_details)) @@ error_storage
                /\ error_statistics' =
                      IncrementStatistic(error_statistics,
                                         error_details.error_category)
       ELSE UNCHANGED errorVars
    /\ UNCHANGED <<historyVars, config, _history_tracker, historical_data,
                   report, _dashboard_realtime, faults, realtimeVars,
                   analyzerVars>>

\* pytest_sessionfinish is entered.
PytestSessionfinish ==
    /\ session \in {"configured", "running"}
    /\ session' = "sessionfinish"
    /\ UNCHANGED <<historyVars, errorVars, analyzerVars, config, _history_tracker,
                   _test_results, historical_data, report,
                   _dashboard_realtime, faults, realtimeVars>>

\* pytest_sessionfinish calls save_test_run when there is a tracker and a
\* result.
SessionSaves == _history_tracker # None /\ _test_results # <<>>

\* A statement of save_test_run raises sqlite3.OperationalError (database is
\* locked, disk full): the with-block is left and the transaction rolled back.
SaveFault ==
    /\ pc = "saving"
    /\ db' = Rollback(db, tx)
    /\ tx' = db'
    /\ pc' = "idle"
    /\ ret' = [op |-> "save_test_run", raised |-> TRUE, run_id |-> 0, days |-> 0, at |-> 0]
    /\ call' = NoCall
    /\ out' = NoOut
    /\ UNCHANGED <<clock, idx, recorded, rd, returned, errorVars, otherVars>>

\* The rest of pytest_sessionfinish: the exception of save_test_run, if any,
\* meets the except clause; then the realtime cleanup, whose first call is of
\* emit_event, so that stop() is reached only if the dashboard has that
\* method.
PytestSessionfinishReturn ==
    /\ session = "sessionfinish"
    /\ pc = "idle"
    /\ SessionSaves => ret.op = "save_test_run"
    /\ LET raised == SessionSaves /\ ret.raised
           caught == raised /\ except_Exception("sqlite3_OperationalError")
       IN  /\ faults' = IF raised THEN faults \cup {"save"} ELSE faults
           /\ IF raised /\ ~caught
              THEN /\ session' = "aborted"
                   /\ UNCHANGED current_state
              ELSE /\ session' = "finished"
                   /\ current_state' =
                         IF _dashboard_realtime # None
                            /\ "emit_event" \in RealtimeDashboardMethods
                         THEN stop(current_state)
                         ELSE current_state
    /\ UNCHANGED <<historyVars, errorVars, analyzerVars, config, _history_tracker,
                   _test_results, historical_data, report,
                   _dashboard_realtime, starts, ends>>

\* generate_historical_trends_section: the section shown for historical_data.
TrendsSection(data) ==
    IF data = None THEN "placeholder" ELSE "trends"

\* pytest_terminal_summary, the report file being there:
\* enhance_html_report_dashboard opens the store and asks get_trends(days=7)
\* inside its own try; what it lets through meets the except clause of the
\* hook, which leaves the report as pytest-html wrote it.
PytestTerminalSummary(init) ==
    /\ session = "finished"
    /\ LET trends == get_trends(db, TrendDaysDefault, clock)
           e == IF init # "ok" THEN init
                ELSE IF trends.raised THEN "sqlite3_OperationalError" ELSE "ok"
           raised == config.enable_tracking /\ e # "ok"
           caught == raised /\ except_Exception(e)
       IN  /\ faults' = IF raised THEN faults \cup {"trends"} ELSE faults
           /\ historical_data' =
                 IF ~config.enable_tracking \/ raised THEN None ELSE trends
           /\ report' = IF raised /\ ~caught THEN report
                        ELSE [trends |-> TrendsSection(historical_data')]
           /\ session' = IF raised /\ ~caught /\ ~except_Exception(e)
                         THEN "aborted" ELSE "reported"
    /\ UNCHANGED <<historyVars, errorVars, analyzerVars, config, _history_tracker,
                   _test_results, _dashboard_realtime, realtimeVars>>

NextSession ==
    \/ \E flags \in Flags : \E init \in InitOutcomes : \E thread \in {"ok", "RuntimeError"} :
          PytestConfigure(flags, init, thread)
    \/ \E test \in Tests : \E exception \in Exceptions :
          PytestRuntestMakereport(test, exception)
    \/ PytestSessionfinish
    \/ /\ session = "sessionfinish"
       /\ SessionSaves
       /\ ret.op = "none"
       /\ SaveBegin(Summarize(_test_results), _test_results)
    \/ SaveTest
    \/ SaveFault
    \/ SaveCommit
    \/ PytestSessionfinishReturn
    \/ \E init \in InitOutcomes : PytestTerminalSummary(init)
    \/ Tick

SpecSession == Init /\ [][NextSession]_vars

(* ----------------------------- AIErrorAnalyzer ------------------------- *)

\* The parts of the regular expressions of the table: a literal text, ".*"
\* (any characters but the newline) and "\w+" (one or more word characters).
Lit(text) == [kind |-> "literal", text |-> text]
AnyChars == [kind |-> "any", text |-> ""]
Word == [kind |-> "word", text |-> ""]

\* The characters \w matches, in a text brought to lower case.
WordChars ==
    LET w == "abcdefghijklmnopqrstuvwxyz0123456789_"
    IN  {SubSeq(w, i, i) : i \in 1..Len(w)}

\* _load_error_patterns(): pattern (its alternatives, each a sequence of
\* parts), category, severity and suggestions; the documentation links are
\* left out.
error_patterns == <<
    [pattern |-> << <<Lit("AssertionError: assert "), Word, Lit(" == "), Word>> >>,
     category |-> "Assertion Failure", severity |-> "high",
     suggestions |-> <<"Check if the expected value matches actual output",
                      "Verify test data setup is correct",
                      "Review recent code changes affecting this value",
                      "Add debug logging to track value changes">>],
    [pattern |-> << <<Lit("TimeoutError")>>, <<Lit("timeout")>>, <<Lit("timed out")>> >>,
     category |-> "Timeout", severity |-> "medium",
     suggestions |-> <<"Increase timeout value if operation is legitimately slow",
                      "Check for network/database connectivity issues",
                      "Review performance of external dependencies",
                      "Add logging to identify where timeout occurs",
                      "Consider adding retry logic for flaky operations">>],
    [pattern |-> << <<Lit("ConnectionError")>>, <<Lit("Connection refused")>>, <<Lit("Connection reset")>> >>,
     category |-> "Connection Error", severity |-> "high",
     suggestions |-> <<"Verify service/server is running and accessible",
                      "Check network connectivity and firewall rules",
                      "Confirm correct host and port configuration",
                      "Review service health checks and startup time",
                      "Add retry mechanism with exponential backoff">>],
    [pattern |-> << <<Lit("ModuleNotFoundError")>>, <<Lit("ImportError: No module named")>> >>,
     category |-> "Import Error", severity |-> "critical",
     suggestions |-> <<"Install missing package: pip install <package-name>",
                      "Check if package is in requirements.txt",
                      "Verify virtual environment is activated",
                      "Check Python path configuration",
                      "Ensure package is available in test environment">>],
    [pattern |-> << <<Lit("AttributeError: "), AnyChars, Lit(" has no attribute")>> >>,
     category |-> "Attribute Error", severity |-> "high",
     suggestions |-> <<"Check object type - might be None or wrong type",
                      "Verify attribute name spelling",
                      "Review API changes in dependencies",
                      "Add type checking or validation",
                      "Check mock/fixture configuration">>],
    [pattern |-> << <<Lit("KeyError: '"), Word, Lit("'")>> >>,
     category |-> "Key Error", severity |-> "medium",
     suggestions |-> <<"Check if key exists before accessing: dict.get('key', default)",
                      "Verify data structure matches expectations",
                      "Review API response format",
                      "Add validation for required fields",
                      "Use defensive programming with try-except">>],
    [pattern |-> << <<Lit("FileNotFoundError")>>, <<Lit("No such file or directory")>> >>,
     category |-> "File Not Found", severity |-> "medium",
     suggestions |-> <<"Verify file path is correct and file exists",
                      "Check working directory in test context",
                      "Use absolute paths or Path.resolve()",
                      "Ensure test fixtures create necessary files",
                      "Check file permissions">>],
    [pattern |-> << <<Lit("ValueError: invalid literal for int()")>> >>,
     category |-> "Type Conversion Error", severity |-> "medium",
     suggestions |-> <<"Validate input before type conversion",
                      "Add try-except for conversion errors",
                      "Check data source for invalid values",
                      "Use more flexible parsing (ast.literal_eval)",
                      "Add data validation layer">>],
    [pattern |-> << <<Lit("selenium.common.exceptions."), AnyChars, Lit(":")>> >>,
     category |-> "Selenium Error", severity |-> "high",
     suggestions |-> <<"Add explicit waits for element visibility",
                      "Check if element locator is correct",
                      "Verify page is fully loaded before interaction",
                      "Handle dynamic content with WebDriverWait",
                      "Review browser compatibility">>],
    [pattern |-> << <<Lit("PermissionError")>>, <<Lit("Permission denied")>> >>,
     category |-> "Permission Error", severity |-> "high",
     suggestions |-> <<"Check file/directory permissions",
                      "Run with appropriate user privileges",
                      "Verify write access to output directory",
                      "Check for file locks by other processes",
                      "Review security policies">>] >>

\* The parts match text from index pos on.
RECURSIVE MatchItems(_, _, _)
MatchItems(text, pos, parts) ==
    IF parts = <<>> THEN TRUE
    ELSE LET part == Head(parts)
         IN  IF part.kind = "literal"
             THEN /\ StartsAt(text, pos, Lower(part.text))
                  /\ MatchItems(text, pos + Len(part.text), Tail(parts))
             ELSE IF part.kind = "any"
             THEN \E j \in pos..(Len(text) + 1) :
                     /\ \A k \in pos..(j - 1) : SubSeq(text, k, k) # "\n"
                     /\ MatchItems(text, j, Tail(parts))
             ELSE \E j \in (pos + 1)..(Len(text) + 1) :
                     /\ \A k \in pos..(j - 1) : SubSeq(text, k, k) \in WordChars
                     /\ MatchItems(text, j, Tail(parts))

\* re.search(pattern, string, re.IGNORECASE) is a match.
re_search_ignorecase(pattern, string) ==
    LET text == Lower(string)
    IN  \E a \in DOMAIN pattern : \E pos \in 1..(Len(text) + 1) :
           MatchItems(text, pos, pattern[a])

\* _generate_generic_suggestions(error_message).
_generate_generic_suggestions(error_message) ==
    LET text == Lower(error_message)
    IN  <<"Review the full stack trace for more context",
          "Check recent code changes that might affect this test",
          "Add debug logging to identify the root cause",
          "Search for similar errors in project history">>
        \o (IF Contains(text, "null") \/ Contains(text, "none")
            THEN <<"Add null/None checks before accessing properties">>
            ELSE <<>>)
        \o (IF Contains(text, "database") \/ Contains(text, "sql")
            THEN <<"Verify database connection and schema",
                   "Check transaction handling">>
            ELSE <<>>)
        \o (IF Contains(text, "api")
            THEN <<"Verify API endpoint availability",
                   "Check request/response format">>
            ELSE <<>>)

\* The analysis of a message: the search links, the documentation links and
\* similar_issues are left out; ai_analysis stays None, the analyzer being
\* built with its defaults (no api_key, provider "local").
Analysis(error_message, category, severity, suggestions) ==
    [error_message |-> error_message, category |-> category,
     severity |-> severity,
     suggestions |-> IF suggestions = <<>>
                     THEN _generate_generic_suggestions(error_message)
                     ELSE suggestions,
     ai_analysis |-> None]

\* A loop over the patterns without the break: the last match stays.
MatchPatternsWithoutBreak(error_message) ==
    LET hits == {i \in DOMAIN error_patterns :
                   re_search_ignorecase(error_patterns[i].pattern, error_message)}
    IN  IF hits = {} THEN Analysis(error_message, "Unknown Error", "medium", <<>>)
        ELSE LET i == CHOOSE h \in hits : \A j \in hits : j <= h
             IN  Analysis(error_message, error_patterns[i].category,
                          error_patterns[i].severity, error_patterns[i].suggestions)

\* analyze_error on a message that is not in the cache (lines 204-239): the
\* first pattern of the list that matches gives category, severity and
\* suggestions.
MatchPatterns(error_message) ==
    LET hits == {i \in DOMAIN error_patterns :
                   re_search_ignorecase(error_patterns[i].pattern, error_message)}
    IN  IF hits = {} THEN Analysis(error_message, "Unknown Error", "medium", <<>>)
        ELSE LET i == CHOOSE h \in hits : \A j \in hits : h <= j
             IN  Analysis(error_message, error_patterns[i].category,
                          error_patterns[i].severity, error_patterns[i].suggestions)

\* The messages given to analyze_error.
AnalyzerMessages ==
    {"",
     "AssertionError: assert 1 == 2",
     "Connection refused: timed out",
     "KeyError: 'email'",
     "KeyError: 'e-mail'",
     "database is null",
     "AttributeError: 'str' object\nhas no attribute 'x'",
     "PERMISSION DENIED: api"}

\* The stack traces given with them; "None" is the default.
AnalyzerTraces == {"None", "Traceback (most recent call last):\n  File \"t.py\", line 3\n"}

\* hashlib.md5(error_message.encode()).hexdigest() on these messages.
cache_key(error_message) ==
    CASE
         error_message = "" -> "d41d8cd98f00b204e9800998ecf8427e" []
         error_message = "AssertionError: assert 1 == 2" -> "e1d64022019cec4fb6b28c3c2c46e53b" []
         error_message = "Connection refused: timed out" -> "e41358694a030f23533809cb2eb20dcd" []
         error_message = "KeyError: 'email'" -> "ae7f69e436e22b1370fa943a261d38bd" []
         error_message = "KeyError: 'e-mail'" -> "b4b952a90066d9320c00338e5e3920e6" []
         error_message = "database is null" -> "8b50df601016e0636fd39f6fa0fdb5e1" []
         error_message = "AttributeError: 'str' object\nhas no attribute 'x'" -> "afa257802368ccbe080e5dfa0327f2c6" []
         error_message = "PERMISSION DENIED: api" -> "6ef33147e356fa0dc79a06a3465a0f49"

\* The analyses of the messages, computed once.
Analyses == [m \in AnalyzerMessages |-> MatchPatterns(m)]

\* A call of analyze_error(error_message, stack_trace).
AnalyzeError(error_message, stack_trace) ==
    LET key == cache_key(error_message)
        cached == key \in DOMAIN solution_cache
        value == IF cached THEN solution_cache[key] ELSE Analyses[error_message]
    IN  /\ solution_cache' = IF cached THEN solution_cache
                             ELSE (key :> value) @@ solution_cache
        /\ analysis' = [op |-> "analyze_error", error_message |-> error_message,
                        stack_trace |-> stack_trace, cached |-> cached,
                        value |-> value]
        /\ UNCHANGED <<historyVars, errorVars, pluginVars, realtimeVars>>

NextAnalyzer ==
    \E error_message \in AnalyzerMessages : \E stack_trace \in AnalyzerTraces :
        AnalyzeError(error_message, stack_trace)

SpecAnalyzer == Init /\ [][NextAnalyzer]_vars

(* ======================================================================= *)
(*                       Claims on the History Store                       *)
(* ======================================================================= *)

\* A test's flaky_count as a reader of database d sees it: 0 without an entry.
FlakyCount(d, n) ==
    IF HasFlaky(d.flaky, _generate_test_id(n))
    THEN FlakyRow(d.flaky, _generate_test_id(n)).flaky_count
    ELSE 0

\* The last element of a non-empty sequence.
Last(s) == s[Len(s)]

\* The step that commits a save_test_run call.
CommitStep == pc = "saving" /\ pc' = "idle" /\ ~ret'.raised

\* C2: flip detection.  Stated for the plainest case: a save that records a
\* test once, in a later second than every earlier row of that test, for a
\* test that already has a flaky entry.  In that save flaky_count rises by
\* one when the outcome differs from the test's last recorded outcome, and
\* stays otherwise.
C2_FlipCounted ==
    [][CommitStep =>
         \A n \in Names :
            (/\ Len(OutcomesOf(call.tests, n)) = 1
             /\ recorded[n] # <<>>
             /\ HasFlaky(db.flaky, _generate_test_id(n))
             /\ \A old \in db.results, new \in db'.results \ db.results :
                   (old.test_name = n /\ new.test_name = n)
                      => old.timestamp < new.timestamp)
            => FlakyCount(db', n) - FlakyCount(db, n)
                 = IF OutcomesOf(call.tests, n)[1] # Last(recorded[n]) THEN 1 ELSE 0]_vars

\* C4: failure atomicity.  The step in which save_test_run raises leaves the
\* committed store as it was before the call, and the connection holds
\* nothing of the call.
C4_FailureAtomic ==
    [][(pc = "saving" /\ ret'.op = "save_test_run" /\ ret'.raised)
          => (db' = db /\ tx' = db)]_vars

\* C4 witness: a save raised on its second entry, after the run row and one
\* result row had been inserted, on a store that already held a run.
C4_Witness ==
    /\ pc = "idle" /\ ret.op = "save_test_run" /\ ret.raised
    /\ idx = 2
    /\ db.runs # {}
    /\ tx = db

\* C6: no flip on first sighting.  A test recorded exactly once has, if it
\* has a flaky entry, flaky_count 0, and get_flaky_tests(1) does not list it.
C6_NoFlipOnFirstSighting ==
    \A n \in Names :
       Len(recorded[n]) = 1 =>
          /\ FlakyCount(db, n) = 0
          /\ \A l \in get_flaky_tests(db, 1) :
                \A i \in DOMAIN l : l[i].test_id # _generate_test_id(n)

\* C7: outcome counters.  A test's flaky entry counts in pass_count the
\* times the test was recorded 'passed' and in fail_count the times it was
\* recorded 'failed'.
C7_OutcomeCounters ==
    \A n \in Names :
       HasFlaky(db.flaky, _generate_test_id(n)) =>
          LET row == FlakyRow(db.flaky, _generate_test_id(n))
          IN  /\ row.pass_count = CountOf(recorded[n], "passed")
              /\ row.fail_count = CountOf(recorded[n], "failed")

\* C7 witness: test_a recorded [passed, passed, failed, passed]; its entry
\* holds pass_count 3 and fail_count 1, and a flip was detected on the way.
C7_Witness ==
    /\ recorded["test_a"] = <<"passed", "passed", "failed", "passed">>
    /\ HasFlaky(db.flaky, _generate_test_id("test_a"))
    /\ FlakyRow(db.flaky, _generate_test_id("test_a")).pass_count = 3
    /\ FlakyRow(db.flaky, _generate_test_id("test_a")).fail_count = 1
    /\ FlakyRow(db.flaky, _generate_test_id("test_a")).flaky_count > FlakyCountDefault

\* C8: round trip.  Right after save_test_run returned, get_test_history of
\* each test of the list is non-empty and its first entry carries an outcome
\* this run recorded for the test.
C8_RoundTrip ==
    (pc = "idle" /\ ret.op = "save_test_run" /\ ~ret.raised) =>
       \A i \in DOMAIN call.tests :
          \A h \in get_test_history(db, call.tests[i].name, HistoryLimitDefault) :
             /\ Len(h) > 0
             /\ \E j \in DOMAIN call.tests :
                   /\ call.tests[j].name = call.tests[i].name
                   /\ h[1].outcome = call.tests[j].outcome

RECURSIVE TotalsProduct(_)
TotalsProduct(rows) ==
    IF rows = {} THEN 1
    ELSE LET r == CHOOSE x \in rows : TRUE
         IN  r.total_tests * TotalsProduct(rows \ {r})

\* Over the common denominator TotalsProduct(rows): the sum of the rows'
\* passed / total_tests ratios.
RECURSIVE RatioSum(_, _)
RatioSum(rows, all) ==
    IF rows = {} THEN 0
    ELSE LET r == CHOOSE x \in rows : TRUE
         IN  r.passed * (TotalsProduct(all) \div r.total_tests)
               + RatioSum(rows \ {r}, all)

Abs(x) == IF x < 0 THEN -x ELSE x

\* value (in hundredths) is scale times the mean of the rows' ratios, to
\* within half a hundredth.
IsScaledMean(value, scale, rows) ==
    LET den == TotalsProduct(rows) * Cardinality(rows)
    IN  2 * Abs(value * den - 100 * scale * RatioSum(rows, rows)) <= den

\* The step in which get_statistics runs its average query.
AvgStep == rd.pc = "stats_avg" /\ rd'.pc = "stats_failed"

\* C9 as claimed: average_pass_rate is the mean over the stored runs of each
\* run's passed / total ratio (0.90 for {10, 8} and {5, 5}).  Stated for the
\* stores in which every run has tests.
C9_MeanOfRunRatios ==
    [][(AvgStep /\ db.runs # {} /\ \A r \in db.runs : r.total_tests # 0)
          => IsScaledMean(rd'.average_pass_rate, 1, db.runs)]_vars

\* C9 as amended: average_pass_rate is the mean, over the stored runs that
\* have tests, of each run's own 100 * passed / total percentage, rounded to
\* two decimals, and 0 when no stored run has tests.
C9_MeanOfRunPercentages ==
    [][AvgStep =>
         LET rated == {r \in db.runs : r.total_tests # 0}
         IN  IF rated = {} THEN rd'.average_pass_rate = 0
             ELSE IsScaledMean(rd'.average_pass_rate, 100, rated)]_vars

\* C9 witness: the runs {10 tests, 8 passed} and {5 tests, 5 passed} are
\* stored and the average query returned 90.00, not the pooled 86.67.
C9_Witness ==
    /\ rd.pc = "stats_failed"
    /\ {[total |-> r.total_tests, passed |-> r.passed] : r \in db.runs}
         = {[total |-> 10, passed |-> 8], [total |-> 5, passed |-> 5]}
    /\ Cardinality(db.runs) = 2
    /\ pc = "idle"
    /\ rd.average_pass_rate = 9000


(* ======================================================================= *)
(*                 Claims on readers concurrent with a save                *)
(*                        (specification SpecConc)                         *)
(* ======================================================================= *)

\* The committed store as it was when k runs had been saved (SpecConc never
\* deletes, and run ids are given in commit order).
CommittedState(k) ==
    [db EXCEPT !.runs = {r \in db.runs : r.run_id <= k},
               !.results = {x \in db.results : x.run_id <= k}]

\* The number of committed per-test rows of run run_id.
RowsOfRun(run_id) == Cardinality({x \in db.results : x.run_id = run_id})

\* The number of committed rows of test test_id with the given outcome.
RowsOfTest(test_id, outcome) ==
    Cardinality({x \in db.results : x.test_id = test_id /\ x.outcome = outcome})

\* C3 (as stated): a reader concurrent with a save sees none or all of a
\* run's effects, get_statistics included: what get_statistics returns is
\* what it would return on one committed state of the store, so that a run
\* is counted in total_runs exactly when its per-test rows are counted in
\* most_failed_tests.
C3_ReadersSeeNoneOrAll ==
    out.op = "get_statistics" =>
        \E k \in 0..db.run_seq :
            /\ out.total_runs = Cardinality(CommittedState(k).runs)
            /\ out.average_pass_rate = AveragePassRate(CommittedState(k))
            /\ out.most_failed_tests \in MostFailedTests(CommittedState(k))

\* C3 (amended): no single query of a reader sees part of a run.  While a
\* save is in flight no row of its run is in the store the readers read; the
\* stored run rows have all their per-test rows and the stored flaky counters
\* agree with the stored rows; get_trend_data returns only runs whose rows are
\* all stored, get_flaky_tests only counters that agree with the stored rows,
\* get_test_history every stored row of the test; and each query of
\* get_statistics, taken alone, reads one committed state.
C3_QueriesSeeNoneOrAll ==
    /\ pc = "saving" =>
          /\ \A r \in db.runs : r.run_id # tx.run_seq
          /\ \A x \in db.results : x.run_id # tx.run_seq
    /\ \A r \in db.runs : RowsOfRun(r.run_id) = r.total_tests
    /\ \A e \in db.flaky :
          /\ e.pass_count = RowsOfTest(e.test_id, "passed")
          /\ e.fail_count = RowsOfTest(e.test_id, "failed")
    /\ out.op = "get_trend_data" =>
          \A i \in DOMAIN out.value :
              RowsOfRun(out.value[i].run_id) = out.value[i].total_tests
    /\ out.op = "get_flaky_tests" =>
          \A i \in DOMAIN out.value :
              /\ out.value[i].pass_count = RowsOfTest(out.value[i].test_id, "passed")
              /\ out.value[i].fail_count = RowsOfTest(out.value[i].test_id, "failed")
    /\ out.op = "get_test_history" =>
          Len(out.value) =
              Cardinality({x \in db.results :
                             x.test_id = _generate_test_id(out.test_name)})
    /\ out.op = "get_statistics" =>
          /\ \E k \in 0..db.run_seq :
                out.total_runs = Cardinality(CommittedState(k).runs)
          /\ \E k \in 0..db.run_seq :
                out.average_pass_rate = AveragePassRate(CommittedState(k))
          /\ \E k \in 0..db.run_seq :
                out.most_failed_tests \in MostFailedTests(CommittedState(k))

\* A reader has returned while the second run is half saved (its run row and
\* the first of its two per-test rows are written): get_trend_data returned
\* the first run alone.
C3_Witness ==
    /\ pc = "saving"
    /\ Len(call.tests) = 2
    /\ idx = 2
    /\ Cardinality(tx.runs) = 2
    /\ Cardinality(tx.results) > Cardinality(db.results)
    /\ out.op = "get_trend_data"
    /\ Len(out.value) = 1


(* ======================================================================= *)
(*          Claims on the error store (specification SpecErr)              *)
(* ======================================================================= *)

\* The categories classify_error can return.
Categories == {ERROR_PATTERNS[i].category : i \in DOMAIN ERROR_PATTERNS} \cup {"UNKNOWN"}

\* The number of stored ErrorDetails, over all test ids, of category c.
StoredWith(c) ==
    Cardinality({<<t, i>> \in ErrorTestIds \X (1..MaxErrors) :
                    /\ t \in DOMAIN error_storage
                    /\ i \in DOMAIN error_storage[t]
                    /\ error_storage[t][i].error_category = c})

\* The sum of the counts of a summary over the keys in keys.
RECURSIVE SumOfCounts(_, _)
SumOfCounts(summary, keys) ==
    IF keys = {} THEN 0
    ELSE LET k == CHOOSE x \in keys : TRUE
         IN  summary[k] + SumOfCounts(summary, keys \ {k})

\* A summary that maps each category to the number of stored records of that
\* category, has no other key, and sums to the number of stored records.
CountsStored(summary) ==
    /\ DOMAIN summary \subseteq Categories
    /\ \A c \in Categories : Get(summary, c, 0) = StoredWith(c)
    /\ SumOfCounts(summary, DOMAIN summary) = StoredErrors

\* C1: after any sequence of capture_test_error calls (any test ids, any mix
\* of exception, log_content and empty inputs) the statistics, and what
\* get_error_summary() returns, map each category to exactly the number of
\* stored ErrorDetails of that category over all test ids, and the counts sum
\* to the number of stored records.
C1_SummaryCountsStored ==
    /\ CountsStored(error_statistics)
    /\ out.op = "get_error_summary" => CountsStored(out.value)

\* get_error_summary() has returned a count of 2 for a category whose two
\* records are stored under two test ids, the last capture having been one
\* with empty inputs, which stored nothing.
C1_Witness ==
    /\ out.op = "get_error_summary"
    /\ ret.op = "capture_test_error"
    /\ ret.value = None
    /\ StoredErrors = 2
    /\ DOMAIN error_storage = ErrorTestIds
    /\ \E c \in DOMAIN out.value : out.value[c] = 2

(* ======================================================================= *)
(*        Claims on classify_error (specification SpecClassify)            *)
(* ======================================================================= *)

\* The order of the rules as the claim gives it.
ClaimedOrder == <<"ASSERTION_FAILURE", "TIMEOUT_ERROR", "CONNECTION_ERROR",
                  "NETWORK_ERROR", "PERMISSION_ERROR", "FILE_NOT_FOUND",
                  "CONFIGURATION_ERROR", "IMPORT_ERROR", "VALUE_ERROR",
                  "TYPE_ERROR", "ATTRIBUTE_ERROR", "KEY_ERROR", "INDEX_ERROR">>

\* The rule of category c has a pattern that matches the text.
RuleMatches(c, text) ==
    \E i \in DOMAIN CompiledPatterns :
        /\ CompiledPatterns[i].category = c
        /\ AnyPatternMatches(CompiledPatterns[i], text)

\* The lower-cased text "message trace" of the last classify_error call.
ClassifiedText == Lower(ret.error_message \o " " \o ret.stack_trace)

\* C5: classify_error returns the category of the first rule, in the order
\* ASSERTION_FAILURE ... INDEX_ERROR, with a pattern that matches the
\* lower-cased text, UNKNOWN when no rule matches; the rules of the table are
\* exactly those thirteen, UNKNOWN not among them.
C5_FirstMatchInOrder ==
    /\ {ERROR_PATTERNS[i].category : i \in DOMAIN ERROR_PATTERNS}
           = {ClaimedOrder[i] : i \in DOMAIN ClaimedOrder}
    /\ \A i \in DOMAIN ERROR_PATTERNS : ERROR_PATTERNS[i].category # "UNKNOWN"
    /\ ret.op = "classify_error" =>
          LET matching == {i \in DOMAIN ClaimedOrder :
                             RuleMatches(ClaimedOrder[i], ClassifiedText)}
          IN  IF matching = {} THEN ret.category = "UNKNOWN"
              ELSE ret.category =
                     ClaimedOrder[CHOOSE i \in matching : \A j \in matching : i <= j]

\* A text matching a timeout and a connection-refused pattern at once has
\* been classified, as TIMEOUT_ERROR.
C5_Witness ==
    /\ ret.op = "classify_error"
    /\ re_search(<<"timed out">>, ClassifiedText)
    /\ re_search(<<"connection", "refused">>, ClassifiedText)
    /\ ret.category = "TIMEOUT_ERROR"


(* ======================================================================= *)
(*              Claims on the History Store, continued (Spec)              *)
(* ======================================================================= *)

\* A step that is a call of clear_old_data, or that only follows one and
\* changes no row (a passing second): the writer is idle before and after and
\* the last writing call is clear_old_data.
PruneStep == pc = "idle" /\ pc' = "idle" /\ ret'.op = "clear_old_data"

\* C11: for every retention value, clear_old_data(days) leaves the flaky_tests
\* table exactly as it was: the same test ids with the same flaky_count,
\* pass_count, fail_count and last flip date, also for tests all of whose runs
\* and results were deleted.
C11_PruneKeepsFlaky ==
    [][PruneStep => db'.flaky = db.flaky]_vars

\* clear_old_data has deleted every run and result row and the flaky entries
\* of both tests are still there.
C11_Witness ==
    /\ ret.op = "clear_old_data"
    /\ pc = "idle"
    /\ db.run_seq > 0
    /\ db.runs = {}
    /\ db.results = {}
    /\ {e.test_id : e \in db.flaky} = TestIds


\* C15: the run_ids returned by successive successful save_test_run calls
\* are strictly increasing, so none is given twice, also when clear_old_data
\* deleted runs, the newest included, between the calls.
C15_RunIdsIncrease ==
    \A i, j \in DOMAIN returned : i < j => returned[i] < returned[j]

\* The first run was deleted by clear_old_data while it was the newest one,
\* and the save after that returned the run_id 2.
C15_Witness ==
    /\ pc = "idle"
    /\ ret.op = "save_test_run" /\ ~ret.raised /\ ret.run_id = 2
    /\ returned = <<1, 2>>
    /\ {r.run_id : r \in db.runs} = {2}

\* The entries of a tests list with name n and outcome o.
EntriesWith(tests, n, o) ==
    {i \in DOMAIN tests : tests[i].name = n /\ tests[i].outcome = o}

C12_ZeroDelta ==
    (/\ out.op = "get_trends"
     /\ db.runs # {}
     /\ \A r \in db.runs : r.timestamp >= Cutoff(out.at, out.days))
    => (~out.raised /\ out.pass_rate_change = 0)

\* C13: get_trends(days) on a store without runs does not raise and returns a
\* zeroed summary: total_runs 0, pass_rate_change 0, avg_duration 0.
C13_FailsSoftWhenEmpty ==
    (out.op = "get_trends" /\ db.runs = {})
    => /\ ~out.raised
       /\ out.total_runs = 0
       /\ out.pass_rate_change = 0
       /\ out.avg_duration = 0


(* ======================================================================= *)
(*            Claims on get_flaky_tests (specification SpecConc)           *)
(* ======================================================================= *)

\* The digits of a test id, in ascending order.
HexDigits == "0123456789abcdef"

\* The place of a digit in HexDigits.
HexRank(c) == CHOOSE i \in 1..Len(HexDigits) : SubSeq(HexDigits, i, i) = c

\* Test id a sorts before test id b.
RECURSIVE IdBefore(_, _)
IdBefore(a, b) ==
    IF Len(b) = 0 THEN FALSE
    ELSE IF Len(a) = 0 THEN TRUE
    ELSE IF SubSeq(a, 1, 1) # SubSeq(b, 1, 1)
         THEN HexRank(SubSeq(a, 1, 1)) < HexRank(SubSeq(b, 1, 1))
         ELSE IdBefore(SubSeq(a, 2, Len(a)), SubSeq(b, 2, Len(b)))

\* C14: get_flaky_tests(min_flips) returns exactly the entries with
\* flaky_count >= min_flips, by descending flaky_count, entries of equal
\* flaky_count by ascending test_id.
C14_FlakyTestsOrder ==
    out.op = "get_flaky_tests" =>
        /\ {out.value[i] : i \in DOMAIN out.value}
              = {e \in db.flaky : e.flaky_count >= out.min_flips}
        /\ Len(out.value) = Cardinality({e \in db.flaky : e.flaky_count >= out.min_flips})
        /\ \A i, j \in DOMAIN out.value :
              i < j =>
                 \/ out.value[i].flaky_count > out.value[j].flaky_count
                 \/ /\ out.value[i].flaky_count = out.value[j].flaky_count
                    /\ IdBefore(out.value[i].test_id, out.value[j].test_id)


(* ======================================================================= *)
(*              Claims on test ids (specification SpecConc)                *)
(* ======================================================================= *)

\* The rows and flaky entries of store d carry the id of their test's name.
IdsOfNames(d) ==
    /\ \A x \in d.results : x.test_id = _generate_test_id(x.test_name)
    /\ \A e \in d.flaky : e.test_id = _generate_test_id(e.test_name)

C18_EveryCallAppends ==
    ret.op = "capture_test_error" =>
        /\ ret.value # None
        /\ ret.test_id \in DOMAIN error_storage
        /\ Last(error_storage[ret.test_id]) = ret.value

\* A step in which capture_test_error stored a record.
CaptureStep ==
    /\ out'.op = "none"
    /\ ret'.op = "capture_test_error"
    /\ ret'.value # None
    /\ error_storage' # error_storage

\* C19: get_test_errors(test_id) returns the records captured for test_id in
\* the order of their capture, a capture putting its record behind the earlier
\* ones and leaving the other tests' records alone; a call of get_test_errors,
\* for a known or an unknown test id, or of get_error_summary changes neither
\* the stored records nor the category counts, and what it returns is
\* determined by them, so that a repeated read returns the same.
C19_ReadsKeepTheStore ==
    [][/\ out'.op = "get_test_errors" =>
             /\ error_storage' = error_storage
             /\ error_statistics' = error_statistics
             /\ out'.value = Get(error_storage, out'.test_id, <<>>)
       /\ out'.op = "get_error_summary" =>
             /\ error_storage' = error_storage
             /\ error_statistics' = error_statistics
             /\ out'.value = error_statistics
       /\ CaptureStep =>
             /\ error_storage'[ret'.test_id]
                   = Append(Get(error_storage, ret'.test_id, <<>>), ret'.value)
             /\ \A t \in DOMAIN error_storage \ {ret'.test_id} :
                   t \in DOMAIN error_storage' /\ error_storage'[t] = error_storage[t]
      ]_vars

\* get_test_errors has returned two different records of one test, the other
\* test id being unknown to the store.
C19_Witness ==
    /\ out.op = "get_test_errors"
    /\ Len(out.value) = 2
    /\ out.value[1] # out.value[2]
    /\ DOMAIN error_storage = {out.test_id}

(* ======================================================================= *)
(*     Claims on classify_error, continued (specification SpecClassify)    *)
(* ======================================================================= *)

\* C20: classify_error does not raise and returns a category of the closed
\* set, the thirteen rules and UNKNOWN; the empty message with the empty trace
\* gives UNKNOWN, whose suggested action is the generic one.
C20_ClassifyIsTotal ==
    ret.op = "classify_error" =>
        /\ ~ret.raised
        /\ ret.category \in {ClaimedOrder[i] : i \in DOMAIN ClaimedOrder} \cup {"UNKNOWN"}
        /\ (ret.error_message = "" /\ ret.stack_trace = "") =>
              /\ ret.category = "UNKNOWN"
              /\ get_suggested_action(ret.category)
                    = "Review error message and stack trace, check logs for additional context"

\* The empty message with the empty trace has been classified.
C20_Witness ==
    /\ ret.op = "classify_error"
    /\ ret.error_message = ""
    /\ ret.stack_trace = ""
    /\ ret.category = "UNKNOWN"


(* ======================================================================= *)
(*          Claims on the suggested actions (specification SpecErr)        *)
(* ======================================================================= *)

\* C21: get_suggested_action(category) returns the string the table gives for
\* each of the thirteen rule categories and for UNKNOWN, and the string of
\* UNKNOWN for a name that is not in the table; every stored ErrorDetails has
\* as suggested_action the string of its error_category.
C21_SuggestedActionOfCategory ==
    /\ out.op = "get_suggested_action" =>
          out.value = (IF out.category \in Categories
                       THEN SUGGESTED_ACTIONS[out.category]
                       ELSE SUGGESTED_ACTIONS["UNKNOWN"])
    /\ \A t \in DOMAIN error_storage : \A i \in DOMAIN error_storage[t] :
          /\ error_storage[t][i].error_category \in Categories
          /\ error_storage[t][i].suggested_action
                = SUGGESTED_ACTIONS[error_storage[t][i].error_category]

\* get_suggested_action has been asked for a name that is not in the table,
\* the store holding records of two categories, one of them UNKNOWN.
C21_Witness ==
    /\ out.op = "get_suggested_action"
    /\ out.category \notin DOMAIN SUGGESTED_ACTIONS
    /\ StoredWith("UNKNOWN") > 0
    /\ StoredWith("UNKNOWN") < StoredErrors


(* ======================================================================= *)
(*        Claims on the rows of the store (specification Spec)             *)
(* ======================================================================= *)

\* C22: in every reachable state of the store, committed or inside a save,
\* there is at most one test_results row for each run_id and each test_id,
\* whatever tests list save_test_run was given.
C22_OneRowPerTestPerRun ==
    \A x, y \in db.results \cup tx.results :
        (x.run_id = y.run_id /\ x.test_id = y.test_id) => x = y


(* ======================================================================= *)
(*     Claims on the rows under every operation (specification SpecRows)   *)
(* ======================================================================= *)

\* Every test_runs and test_results row of d is a row of e.
RowsKept(d, e) == d.runs \subseteq e.runs /\ d.results \subseteq e.results

\* No row of d is in e under its key with another content.
NoRowModified(d, e) ==
    /\ \A r \in d.runs : \A q \in e.runs : r.run_id = q.run_id => r = q
    /\ \A x \in d.results : \A y \in e.results : x.result_id = y.result_id => x = y

\* C23: run and result rows are append-only.  No step changes a stored
\* test_runs or test_results row; a step of a read (get_trend_data,
\* get_flaky_tests, get_test_history, get_statistics, get_trends) leaves the
\* tables as they are, a step of save_test_run leaves every stored row in
\* place, and a step after which a stored row is gone is a step of
\* clear_old_data.
C23_RowsAppendOnly ==
    [][/\ NoRowModified(db, db')
       /\ (out'.op # "none" \/ rd' # rd) => (db'.runs = db.runs /\ db'.results = db.results)
       /\ (pc = "saving" /\ ~ret'.raised) => RowsKept(db, db') /\ RowsKept(tx, tx')
       /\ ~RowsKept(db, db') =>
             /\ pc = "idle" /\ pc' = "idle"
             /\ ret'.op = "clear_old_data"
             /\ out'.op = "none" /\ rd' = rd
      ]_vars

\* The second run has been committed, the first being stored as it was when
\* it was returned, and a reader has read the two rows of a test.
C23_Witness ==
    /\ returned = <<1, 2>>
    /\ \E r \in db.runs : r.run_id = 1 /\ r.timestamp = 0
    /\ \E r \in db.runs : r.run_id = 2 /\ r.timestamp = 1
    /\ out.op = "get_test_history"
    /\ Len(out.value) = 2


(* ======================================================================= *)
(*        Claims on the hooks of the plugin (specification SpecSession)    *)
(* ======================================================================= *)

\* C24: a failure of the History Store does not abort the session.  No hook
\* lets an exception of the store through; after TestHistory() raised in
\* pytest_configure the tracker is None and nothing is saved; a save_test_run
\* that raised in pytest_sessionfinish leaves the store as it was and the
\* session goes on to its report; after the store raised in
\* enhance_html_report_dashboard historical_data is None and the report shows
\* the placeholder section.
C24_HistoryFailuresCaught ==
    /\ session # "aborted"
    /\ "init" \in faults => (_history_tracker = None /\ returned = <<>> /\ db = EmptyDb)
    /\ ("save" \in faults /\ session \in {"finished", "reported"}) => db = EmptyDb
    /\ (session = "reported" /\ "trends" \in faults) =>
          /\ historical_data = None
          /\ report = [trends |-> "placeholder"]

\* A session whose save_test_run raised and whose get_trends raised has
\* written its report.
C24_Witness ==
    /\ session = "reported"
    /\ faults = {"save", "trends"}
    /\ Len(_test_results) = 2
    /\ report = [trends |-> "placeholder"]

\* C27: when the realtime dashboard was started in pytest_configure, a
\* session that has left pytest_sessionfinish has stopped it: the status of
\* current_state is 'completed'.
C27_RealtimeStopped ==
    (session \in {"finished", "reported"} /\ _dashboard_realtime # None) =>
        current_state.status = "completed"


(* ======================================================================= *)
(*     Claims on the realtime dashboard (specification SpecRealtime)       *)
(* ======================================================================= *)

\* The outcomes update_test_end counts under their own name.
CountedOutcomes == {"passed", "failed", "skipped"}

\* C28: after any sequence of start, update_test_start, update_test_end and
\* stop calls, summary.total is the number of update_test_end calls and the
\* length of the tests list; summary.running is not negative and not larger
\* than the number of update_test_start calls; passed + failed + skipped is at
\* most total, and equal to it when every outcome reported was passed, failed
\* or skipped.
C28_RealtimeSummary ==
    LET summary == current_state.summary
        counted == summary.passed + summary.failed + summary.skipped
    IN  /\ summary.total = Len(ends)
        /\ summary.total = Len(current_state.tests)
        /\ summary.running >= 0
        /\ summary.running <= starts
        /\ counted <= summary.total
        /\ (\A i \in DOMAIN ends : ends[i] \in CountedOutcomes) => counted = summary.total
        /\ \A o \in CountedOutcomes : summary[o] = CountOf(ends, o)

\* Three tests have ended, one of them with outcome error and more of them
\* than were started, and the dashboard has been stopped.
C28_Witness ==
    /\ Len(ends) = MaxCalls
    /\ \E i \in DOMAIN ends : ends[i] = "error"
    /\ \E i \in DOMAIN ends : ends[i] = "passed"
    /\ starts = 1
    /\ current_state.summary.running = 0
    /\ current_state.status = "completed"


(* ======================================================================= *)
(*        Claims on the prune, continued (specification Spec)              *)
(* ======================================================================= *)

\* C25: after any sequence of save_test_run and clear_old_data calls, the
\* run_id of every test_results row is that of a test_runs row of the store:
\* clear_old_data removes a run together with all its per-test rows.
C25_ResultsHaveTheirRun ==
    \A x \in db.results : \E r \in db.runs : r.run_id = x.run_id


(* ======================================================================= *)
(*   Claims on the flaky count of get_trends (specification SpecRows)      *)
(* ======================================================================= *)

\* The outcome recorded for test n has changed between two consecutive
\* recordings.
HasFlipped(n) ==
    \E i \in 1..(Len(recorded[n]) - 1) : recorded[n][i] # recorded[n][i + 1]

\* C26: get_trends returns, and its 'flaky_tests' is the number of tests whose
\* recorded outcome has changed at least once between consecutive recorded
\* runs; a test that always passed or always failed is not counted.
C26_TrendsFlakyCount ==
    out.op = "get_trends" =>
        /\ ~out.raised
        /\ out.flaky_tests = Cardinality({n \in Names : HasFlipped(n)})


(* ======================================================================= *)
(*      Claims on the capture from an exception (specification SpecErr)    *)
(* ======================================================================= *)

\* The category of the message of e with the stack trace format_exc gives
\* inside (handled) and outside an except block, computed once.
ClassifiedWithTrace ==
    [e \in Exceptions, handled \in BOOLEAN |->
        classify_error(e.message, format_exc(e, handled))]

\* Is the class name of e part of the text classify_error searches?
ClassNameInText ==
    [e \in Exceptions, handled \in BOOLEAN |->
        Contains(Lower(e.message \o " " \o format_exc(e, handled)), Lower(e.type))]

\* The last call of capture_test_error was given an exception.
CapturedException == ret.op = "capture_test_error" /\ ret.exception # NoException

\* The record of the last call is the one captured from its exception,
\* inside or outside an except block: the log is not looked at, error_type is
\* the class name, error_category the category of message and stack trace.
RecordOfException(handled) ==
    /\ ret.value # None
    /\ Last(error_storage[ret.test_id]) = ret.value
    /\ ret.value.error_type = ret.exception.type
    /\ ret.value.error_message = ret.exception.message
    /\ ret.value.stack_trace = format_exc(ret.exception, handled)
    /\ ret.value.error_category = ClassifiedWithTrace[ret.exception, handled]

MatchingPatterns ==
    [m \in AnalyzerMessages |->
        {i \in DOMAIN error_patterns :
            re_search_ignorecase(error_patterns[i].pattern, m)}]

\* The analysis v is that of the first pattern in list order matching message
\* m, or 'Unknown Error' with suggestions when none matches.
OfFirstMatch(v, m) ==
    /\ v.error_message = m
    /\ IF MatchingPatterns[m] = {}
       THEN v.category = "Unknown Error" /\ v.suggestions # <<>>
       ELSE \E i \in MatchingPatterns[m] :
               /\ \A j \in MatchingPatterns[m] : i <= j
               /\ v.category = error_patterns[i].category
               /\ v.severity = error_patterns[i].severity
               /\ v.suggestions = error_patterns[i].suggestions

\* C30: in every call of analyze_error, a message analysed before gets the
\* cached analysis, whatever stack trace is passed, and the cache is left as
\* it is; no call changes or removes an entry, so the analysis is the one of
\* the first call; every entry is stored under the md5 of its own message;
\* the analysis returned is that of the first matching pattern in list order,
\* or 'Unknown Error' with a non-empty list of suggestions.
C30_CacheIdempotent ==
    [][analysis'.op = "analyze_error" =>
          LET k == cache_key(analysis'.error_message)
          IN  /\ k \in DOMAIN solution_cache =>
                    /\ analysis'.value = solution_cache[k]
                    /\ solution_cache' = solution_cache
              /\ \A j \in DOMAIN solution_cache :
                    j \in DOMAIN solution_cache' /\ solution_cache'[j] = solution_cache[j]
              /\ k \in DOMAIN solution_cache' /\ solution_cache'[k] = analysis'.value
              /\ \A j \in DOMAIN solution_cache' :
                    cache_key(solution_cache'[j].error_message) = j
              /\ OfFirstMatch(analysis'.value, analysis'.error_message)
      ]_vars

\* A message that two patterns match has been analysed a second time, with a
\* stack trace, the cache holding three analyses.
C30_Witness ==
    /\ analysis.op = "analyze_error"
    /\ analysis.cached
    /\ analysis.stack_trace # "None"
    /\ Cardinality(MatchingPatterns[analysis.error_message]) = 2
    /\ analysis.value.category = "Timeout"
    /\ Cardinality(DOMAIN solution_cache) = 3

====
